---- MODULE Spec2Model ----
(***************************************************************************)
(* A model of hf_bot: the publisher poller and its diff engine             *)
(* (monitoring.py), the cursor pagination of the listing client            *)
(* (clients/huggingface.py) and the quiz-duel session timer (handlers.py). *)
(*                                                                         *)
(* asyncio runs one task at a time and switches tasks only at an await     *)
(* that suspends, so every action below is the code between two            *)
(* suspension points of one task.                                          *)
(***************************************************************************)
EXTENDS Integers, Sequences, FiniteSets, TLC

(***************************************************************************)
(* Bounds of the model.                                                    *)
(***************************************************************************)
\* longest listing the upstream serves for one publisher in one cycle
MaxLen == 4
\* number of duel sessions created in one run
MaxSessions == 2
\* the contents a key of the state file can hold are 0..MaxVal
MaxVal == 1
\* new identifiers of one publisher that one cycle notifies
MaxItems == 3
\* starts of the process in one run
MaxRestarts == 2
\* model references, search phrases and URLs of one message
MaxRefs == 6

(***************************************************************************)
(* Generic helpers.                                                        *)
(***************************************************************************)
Range(s) == {s[i] : i \in 1..Len(s)}

\* Python's None, and a str value
None == <<>>
Str(t) == <<t>>

RECURSIVE SeqsUpTo(_, _)
SeqsUpTo(S, n) ==
    IF n = 0 THEN {<<>>}
    ELSE LET shorter == SeqsUpTo(S, n - 1)
         IN  shorter \cup {Append(s, x) : s \in {t \in shorter : Len(t) = n - 1}, x \in S}

\* reversed(seq)
Reverse(s) == [i \in 1..Len(s) |-> s[Len(s) + 1 - i]]

(***************************************************************************)
(* Identifiers are character strings "publisher/name"; they are kept as    *)
(* sequences of characters so that the suffix classifier is computed.      *)
(***************************************************************************)
UpperChars == <<"A","B","C","D","E","F","G","H","I","J","K","L","M",
                "N","O","P","Q","R","S","T","U","V","W","X","Y","Z">>
LowerChars == <<"a","b","c","d","e","f","g","h","i","j","k","l","m",
                "n","o","p","q","r","s","t","u","v","w","x","y","z">>

\* str.lower(), one character
LowerChar(c) ==
    IF \E i \in 1..Len(UpperChars) : UpperChars[i] = c
    THEN LowerChars[CHOOSE i \in 1..Len(UpperChars) : UpperChars[i] = c]
    ELSE c

\* str.lower()
Lower(s) == [i \in 1..Len(s) |-> LowerChar(s[i])]

\* model_id.split("/", 1)[-1]: the text after the first "/", or the whole
\* text when there is none
AfterFirstSlash(s) ==
    IF \E i \in 1..Len(s) : s[i] = "/"
    THEN LET k == CHOOSE i \in 1..Len(s) :
                     s[i] = "/" /\ \A j \in 1..(i - 1) : s[j] # "/"
         IN  SubSeq(s, k + 1, Len(s))
    ELSE s

\* str.endswith(suffix)
EndsWith(s, suf) ==
    /\ Len(suf) <= Len(s)
    /\ SubSeq(s, Len(s) - Len(suf) + 1, Len(s)) = suf

DERIVATIVE_SUFFIXES ==
    { <<"-","g","g","u","f">>, <<"-","f","p","8">>, <<"-","f","p","4">>,
      <<"-","b","f","1","6">>, <<"-","i","n","t","4">>, <<"-","i","n","t","8">>,
      <<"-","a","w","q">>, <<"-","g","p","t","q">>, <<"-","n","v","f","p","4">>,
      <<"-","o","n","n","x">>,
      <<"-","b","a","s","e">>, <<"-","p","r","e","t","r","a","i","n">>,
      <<"-","o","r","i","g","i","n","a","l">>,
      <<"-","e","a","g","l","e">>,
      <<"-","u","n","q","u","a","n","t","i","z","e","d">> }

\* the classifier without .lower()
is_derivative_model_CaseSensitive(model_id) ==
    LET name == AfterFirstSlash(model_id)
    IN  \E suf \in DERIVATIVE_SUFFIXES : EndsWith(name, suf)

is_derivative_model(model_id) ==
    LET name == Lower(AfterFirstSlash(model_id))
    IN  \E suf \in DERIVATIVE_SUFFIXES : EndsWith(name, suf)

(***************************************************************************)
(* The publishers of the model and the identifiers their listings hold.    *)
(***************************************************************************)
X1 == <<"a","c","m","e","/","x","-","1">>
X2 == <<"a","c","m","e","/","x","-","2">>
X3 == <<"a","c","m","e","/","x","-","3">>
X4 == <<"a","c","m","e","/","x","-","4">>
\* org/model-gguf: a technical variant
OrgGguf == <<"o","r","g","/","m","o","d","e","l","-","g","g","u","f">>
\* org/base: a main release (the name is "base", not "...-base")
OrgBase == <<"o","r","g","/","b","a","s","e">>
\* lab-fp8/Kit-FP8: a variant, spelt in upper case
LabKitFp8 == <<"l","a","b","-","f","p","8","/","K","i","t","-","F","P","8">>
\* lab-fp8/kit: a main release of a publisher whose own name ends in -fp8
LabKit == <<"l","a","b","-","f","p","8","/","k","i","t">>

IdsOf(org) ==
    CASE org = "acme"    -> {X1, X2, X3, X4}
      [] org = "org"     -> {OrgGguf, OrgBase}
      [] org = "lab-fp8" -> {LabKitFp8, LabKit}

\* the values of poll_once's parameter orgs that the model runs with
MonitoredChoices == { <<"acme">>, <<"org", "lab-fp8">> }

AllOrgs == {"acme", "org", "lab-fp8"}

\* what hf.fetch_models_for_org(org) can return: the ids of a listing
Listings == [org \in AllOrgs |-> SeqsUpTo(IdsOf(org), MaxLen)]


(***************************************************************************)
(* State.                                                                  *)
(***************************************************************************)
VARIABLES
    \* --- shared ---------------------------------------------------------
    state,      \* the in-memory state document (app.bot_data["state"])
    disk,       \* the document persisted at settings.state_path
    \* --- poll_once ------------------------------------------------------
    monitored,  \* poll_once's parameter orgs
    pollPc,     \* "raised" (an exception left poll_once), or
                \* "idle", "gather" (awaiting the fetches), "notify"
                \* (awaiting _notify_new_model), "done" (returned)
    results,    \* poll_once's local results: <<org, models>> per publisher
    raised,     \* publishers whose fetch_models_for_org raised this cycle
    idx,        \* position of the for loop in results
    changed,    \* poll_once's local changed
    pending,    \* the part of reversed(main_models) not yet notified;
                \* its head is the _notify_new_model being awaited
    sent,       \* announcements of this cycle, in order: <<org, model_id>>,
                \* each handed to _notify_new_model
    failed,     \* the announcements of this cycle whose send raised
    saved,      \* save_state was called by this cycle
    prev,       \* state["orgs"] as it was when this cycle started
    noted,      \* per publisher: the ids announced so far that every
                \* listing stored since has contained
    last,       \* results and raised of the cycle before, while the
                \* upstream has not changed since; NoLast otherwise
    repeat,     \* this cycle fetched exactly what the cycle before fetched
    \* --- HuggingFaceClient._paginate -----------------------------------
    pagPc,      \* "idle", "request" (awaiting session.get), "returned", "raised"
    max_pages,  \* _paginate's parameter max_pages
    requests,   \* GET requests issued by this call
    all_items,  \* _paginate's local all_items, one run of items per page
    url,        \* _paginate's local url: 0 is _HF_API, k > 0 the k-th cursor
    current_params, \* _paginate's local current_params: "params" or "None"
    link_header, \* the next cursor in the Link header of the last response:
                \* <<>> when it has none, else <<cursor>>
    responses,  \* what this call's requests met, in order: the size of
                \* the page and whether it had a next cursor, or a failure
    \* --- /battle -------------------------------------------------------
    battles,    \* bot_data["battles"]: chat id -> {question, answer, type}
    sidOf,      \* the serial number of the session each entry of battles is
    jobs,       \* the pending run_once jobs of the job queue
    running,    \* the _battle_reminder callbacks that await their send_message
    hPc,        \* where the update being handled is suspended ("idle": none)
    hChat,      \* the chat of the update being handled
    hBattle,    \* handle_message's local battle, wrapped: <<>> or <<dict>>
    hSid,       \* the session the handler created or read
    hReply,     \* what the last cmd_battle told the user instead of a
                \* question: "", "already_active" or "no_llm"
    hReplyTo,   \* message.reply_to_message of the update the last step
                \* handled: "some" when it replies to a message, "none"
                \* when it does not or the step handled no message
    msgs,       \* the messages about sessions handed to the chat:
                \* [kind, chat, sid], kind being "nudge", "result",
                \* "eval_failed" or "timeout"; "eval_undelivered"
                \* records an evaluation whose last send raised
    nextSid,    \* sessions created so far, plus one
    nextQ,      \* questions generated so far, plus one
    refillNew,  \* _refill_bank tasks created and not yet started
    refillWait, \* _refill_bank tasks awaiting generate_question_bank
    prefill,    \* the count the _prefill_question_bank task asked for, 0
                \* when no such task awaits generate_question_bank
    served,     \* the questions _pop_bank_question has returned
    restarts,   \* starts of the process so far
    \* --- state.py: the state file ---------------------------------------
    path_file,  \* the file at path: [exists, readable, text]
    tmp_file,   \* the file at path + ".tmp"
    storePc,    \* "down" (no process), "aborted" (startup raised), "up",
                \* "writing" (save_state is in its with block), "replace"
                \* (before os.replace)
    saveDoc,    \* save_state's argument state, wrapped: <<>> or <<doc>>
    loaded,     \* what load_state returned at startup, wrapped
    committed,  \* the document of the last save_state that returned (or
                \* the valid object found at path before), wrapped
    \* --- monitoring.py: one call of _notify_new_model -------------------
    dPc,        \* "idle", the stage being awaited ("gather", "summary",
                \* "deploy"), "returned" or "raised"
    dOut,       \* what the awaited calls of this call do, see DispatchOutcomes
    dMsgs,      \* the messages this call has delivered, in order
    dSend,      \* the task of this call's announcement send: "none",
                \* "flying", "ok" or "raise"
    dItem,      \* the position of this call in the cycle's notify order
    dStray,     \* announcement sends of earlier calls still in flight
    dDelivered, \* the positions whose announcement arrived, in order
    \* _gather_context
    gPc,        \* "idle", "await", "returned" or "raised"
    gIntent,    \* intent_data["intent"]
    gText,      \* user_text
    gApiKey,    \* the API key of the search client
    gTasks,     \* the tasks created, in order
    gResults,   \* the result of every task, or Pending
    gFailed,    \* the positions of the tasks in which a call raised
    gCtx,       \* the bundle returned
    gUrls,      \* extract_urls(user_text): the URLs of the message, in order
    \* handle_message
    mPc,        \* "idle", "returned", "battle", "placeholder", "chat",
                \* "edit", "done" or "raised"
    mUpdate,    \* the update being handled
    mOutcome,   \* what the request of _chat met, "" before it
    mChat,      \* what _chat returned, or the exception that left it
    mResponse,  \* handle_message's local response
    mShown,     \* what the chat shows of the answer: the placeholder and
                \* the reply sent in its place, if any
    \* main
    mainPc,     \* "down", "from_env", "exited", "logging", "build",
                \* "loaded", "polling" or "crashed"
    mainEnv,    \* the environment of the process
    mainExit,   \* the status of sys.exit, 0 before it
    mainLoaded, \* <<the state load_state returned>>, <<>> before it
    mainJobs    \* the names of the jobs scheduled in the job queue

pollVars == <<monitored, pollPc, results, raised, idx, changed, pending,
              sent, failed, saved, prev, noted, last, repeat>>
pagVars == <<pagPc, max_pages, requests, all_items, url, current_params, link_header,
            responses>>
duelVars == <<battles, sidOf, jobs, running, hPc, hChat, hBattle, hSid, hReply, hReplyTo, msgs,
              nextSid, nextQ, refillNew, refillWait, prefill, served, restarts>>
storeVars == <<path_file, tmp_file, storePc, saveDoc, loaded, committed>>
dispVars == <<dPc, dOut, dMsgs, dSend, dItem, dStray, dDelivered>>
gatherVars == <<gPc, gIntent, gText, gApiKey, gTasks, gResults, gFailed, gCtx, gUrls>>
messageVars == <<mPc, mUpdate, mOutcome, mChat, mResponse, mShown>>
mainVars == <<mainPc, mainEnv, mainExit, mainLoaded, mainJobs>>
vars == <<state, disk, pollVars, pagVars, duelVars, storeVars, dispVars, gatherVars,
         messageVars, mainVars>>

(***************************************************************************)
(* state.py                                                                *)
(***************************************************************************)
_empty_state == [orgs |-> <<>>, chat_users |-> <<>>, question_bank |-> <<>>]

\* save_state(state, path): the whole document replaces the persisted one
save_state(st) == st

\* state["orgs"].get(org) is truthy
HasOrgState(st, org) == org \in DOMAIN st.orgs

\* state["orgs"][org] = {"models": ids}
SetOrg(st, org, ids) ==
    [st EXCEPT !.orgs = [o \in (DOMAIN st.orgs) \cup {org} |->
                            IF o = org THEN [models |-> ids] ELSE st.orgs[o]]]

(***************************************************************************)
(* monitoring.py: _notify_new_model.                                       *)
(*                                                                         *)
(* One call is determined by what its awaited calls do: the outcome.       *)
(***************************************************************************)
\* what awaiting hf.get_model_info can do: raise, return None, or return
\* a record whose safetensors is absent ("bare"), has no parameters
\* ("empty"), has parameters that count nothing ("zero"), or has sizes
InfoKinds == {"raise", "None", "bare", "empty", "zero", "size"}

\* models.py line 70: the safetensors field of the ModelInfo
Safetensors(info) ==
    CASE info = "bare"  -> None
      [] info = "empty" -> <<[parameters |-> [d \in {} |-> 0]]>>
      [] info = "zero"  -> <<[parameters |-> [d \in {"F16"} |-> 0]]>>
      [] info = "size"  -> <<[parameters |-> [d \in {"BF16", "F32"} |-> 7]]>>

\* models.py lines 141-146: total, the sum of the counts
RECURSIVE Total(_, _)
Total(params, dtypes) ==
    IF dtypes = {} THEN 0
    ELSE LET d == CHOOSE x \in dtypes : TRUE
         IN  params[d] + Total(params, dtypes \ {d})

\* from_model without the test of line 148
from_model_ZeroCounts(safetensors) ==
    IF safetensors = None THEN None
    ELSE LET params == safetensors[1].parameters
         IN  IF DOMAIN params = {} THEN None
             ELSE <<[total_params |-> Total(params, DOMAIN params)]>>

\* models.py lines 131-151: DeployInfo.from_model, None or the estimate
from_model(safetensors) ==
    IF safetensors = None THEN None
    ELSE LET params == safetensors[1].parameters
         IN  IF DOMAIN params = {} THEN None
             ELSE IF Total(params, DOMAIN params) = 0 THEN None
             ELSE <<[total_params |-> Total(params, DOMAIN params)]>>

\* monitoring.py lines 138-140: `if model_info:` and `if deploy:`
Estimated(info) ==
    /\ info \notin {"raise", "None"}
    /\ from_model(Safetensors(info)) # None

DispatchOutcomes ==
    [send         : {"ok", "raise"},                 \* bot.send_message, line 106
     readme       : {"None", "text"},                \* hf.get_model_readme
     info         : InfoKinds,                       \* hf.get_model_info
     summary      : {"None", "text", "raise"},       \* llm.generate_model_summary
     summary_send : {"ok", "raise"},                 \* the send of lines 125-131
     estimate     : {"ok", "raise"},                 \* DeployInfo.from_model
     deploy_send  : {"ok", "raise"}]                 \* the send of lines 141-145

NoOutcome ==
    [send |-> "ok", readme |-> "None", info |-> "None", summary |-> "None",
     summary_send |-> "ok", estimate |-> "ok", deploy_send |-> "ok"]

\* an exception is raised inside the stage
StageRaises(stage, o) ==
    CASE stage = "gather" ->
            \* asyncio.gather without return_exceptions (line 114);
            \* get_model_readme catches its own exceptions
            o.send = "raise" \/ o.info = "raise"
      [] stage = "summary" ->
            IF o.readme = "text"
            THEN o.summary = "raise" \/ (o.summary = "text" /\ o.summary_send = "raise")
            ELSE o.summary_send = "raise"
      [] stage = "deploy" ->
            \/ o.info \notin {"raise", "None"} /\ o.estimate = "raise"
            \/ Estimated(o.info) /\ o.deploy_send = "raise"

\* the message the task of the announcement send delivers (line 106)
SendMsgs(o) == IF o.send = "ok" THEN <<"announcement">> ELSE <<>>

\* the messages the stage itself delivers
StageMsgs(stage, o) ==
    CASE stage = "gather" -> <<>>
      [] stage = "summary" ->
            IF StageRaises(stage, o) THEN <<>>
            ELSE IF o.readme = "text"
            THEN IF o.summary = "text" THEN <<"summary">> ELSE <<>>
            ELSE <<"no_readme">>
      [] stage = "deploy" ->
            IF Estimated(o.info) /\ ~StageRaises(stage, o) THEN <<"deploy">> ELSE <<>>

\* only the gather has an except clause
Caught_OnlyGather(stage) == stage = "gather"

\* lines 113-117, 120-134, 137-146: every stage is inside a try whose
\* except clause catches Exception
Caught(stage) == TRUE

\* the stage after stage in the source
Following(stage) ==
    CASE stage = "gather" -> "summary"
      [] stage = "summary" -> "deploy"
      [] stage = "deploy" -> "returned"

\* where the call goes when the await of stage is over; the except clause
\* of the gather returns (line 117), the two others fall through
AfterStage(stage, o) ==
    IF ~StageRaises(stage, o) THEN Following(stage)
    ELSE IF ~Caught(stage) THEN "raised"
    ELSE IF stage = "gather" THEN "returned"
    ELSE Following(stage)

\* _notify_new_model from stage on, out being delivered already
RECURSIVE RunDispatch(_, _, _)
RunDispatch(stage, o, out) ==
    IF stage \in {"returned", "raised"}
    THEN [pc |-> stage, msgs |-> out]
    ELSE RunDispatch(AfterStage(stage, o), o, out \o StageMsgs(stage, o))

_notify_new_model(o) == RunDispatch("gather", o, SendMsgs(o))

\* what poll_once sees of a call: whether it raised, and whether the
\* announcement went out
DispatchSummaries ==
    {[raised |-> _notify_new_model(o).pc = "raised",
      announced |-> o.send = "ok"] : o \in DispatchOutcomes}

\* line 114: asyncio.gather without return_exceptions is over when every
\* task is done or when the first of them has raised; it does not cancel
\* the others, which run on
GatherOver(send, o) == send # "flying" \/ o.info = "raise"

\* the positions a send that is done adds to the delivered ones
Arrived(item, send) == IF send = "ok" THEN <<item>> ELSE <<>>

\* poll_once calls _notify_new_model for the next identifier once the
\* call before has ended (lines 72-73); the call creates its three tasks
\* and awaits them (lines 103-114)
DispatchCall ==
    /\ dPc \in {"idle", "returned", "raised"}
    /\ dItem < MaxItems
    /\ dPc' = "gather"
    /\ dOut' \in DispatchOutcomes
    /\ dMsgs' = <<>>
    /\ dSend' = "flying"
    /\ dItem' = dItem + 1
    /\ dStray' = IF dSend = "flying"
                 THEN dStray \cup {[item |-> dItem, send |-> dOut.send]}
                 ELSE dStray
    /\ UNCHANGED dDelivered
    /\ UNCHANGED <<state, disk, pollVars, pagVars, duelVars, storeVars, gatherVars, messageVars, mainVars>>

\* the announcement send of the current call is done
SendSettles ==
    /\ dSend = "flying"
    /\ dSend' = dOut.send
    /\ dMsgs' = dMsgs \o SendMsgs(dOut)
    /\ dDelivered' = dDelivered \o Arrived(dItem, dOut.send)
    /\ UNCHANGED <<dPc, dOut, dItem, dStray>>
    /\ UNCHANGED <<state, disk, pollVars, pagVars, duelVars, storeVars, gatherVars, messageVars, mainVars>>

\* the announcement send of an earlier call is done
StraySettles ==
    /\ \E t \in dStray :
          /\ dStray' = dStray \ {t}
          /\ dDelivered' = dDelivered \o Arrived(t.item, t.send)
    /\ UNCHANGED <<dPc, dOut, dMsgs, dSend, dItem>>
    /\ UNCHANGED <<state, disk, pollVars, pagVars, duelVars, storeVars, gatherVars, messageVars, mainVars>>

\* the await of the current stage is over
DispatchStage ==
    /\ dPc \in {"gather", "summary", "deploy"}
    /\ dPc = "gather" => GatherOver(dSend, dOut)
    /\ dPc' = AfterStage(dPc, dOut)
    /\ dMsgs' = dMsgs \o StageMsgs(dPc, dOut)
    /\ UNCHANGED <<dOut, dSend, dItem, dStray, dDelivered>>
    /\ UNCHANGED <<state, disk, pollVars, pagVars, duelVars, storeVars, gatherVars, messageVars, mainVars>>

(***************************************************************************)
(* monitoring.py: poll_once                                                *)
(***************************************************************************)
\* what awaiting hf.fetch_models_for_org(org) can do: return a listing or raise
Outcomes ==
    [org \in AllOrgs |->
        {[ok |-> TRUE, models |-> l] : l \in Listings[org]}
            \cup {[ok |-> FALSE, models |-> <<>>]}]

\* one outcome per publisher of the list orgs, in its order
RECURSIVE OutcomeVectors(_)
OutcomeVectors(orgs) ==
    IF orgs = <<>> THEN {<<>>}
    ELSE {<<o>> \o rest : o \in Outcomes[Head(orgs)], rest \in OutcomeVectors(Tail(orgs))}

GatherOutcomes == [m \in MonitoredChoices |-> OutcomeVectors(m)]

\* _fetch(org): a fetch that raises becomes the empty listing
_fetch(org, outcome) == <<org, IF outcome.ok THEN outcome.models ELSE <<>> >>

\* no record of the cycle before
NoLast == [valid |-> FALSE, results |-> <<>>, raised |-> {}]

\* lines 49-56: first occurrences, in the order of the listing
RECURSIVE DedupInto(_, _)
DedupInto(models, current_ids) ==
    IF models = <<>> THEN current_ids
    ELSE LET mid == Head(models)
         IN  IF mid \in Range(current_ids)
             THEN DedupInto(Tail(models), current_ids)
             ELSE DedupInto(Tail(models), Append(current_ids, mid))

\* the listing as fetched
Dedup_Keep(models) == models

\* lines 49-56 for the list models
Dedup(models) == DedupInto(models, <<>>)

\* an empty result is diffed like any other
IsSkipped_Never(models) == FALSE

\* line 46: `if not models: continue`
IsSkipped(models) == models = <<>>

\* no baseline branch: a missing stored state is an empty stored list
IsFirstSync_Never(st, org) == FALSE

\* lines 58-59: `if not org_state`, the publisher has no stored state
IsFirstSync(st, org) == ~HasOrgState(st, org)

\* org_state.get("models", [])
StoredModels(st, org) ==
    IF HasOrgState(st, org) THEN st.orgs[org].models ELSE <<>>

\* every fetched identifier counts as new
NewIds_All(current_ids, stored) == current_ids

\* lines 66-67: new_ids, given the stored list
NewIds(current_ids, stored) ==
    LET prev_set == Range(stored)
    IN  SelectSeq(current_ids, LAMBDA mid : mid \notin prev_set)

\* line 70: main_models
MainModels(new_ids) == SelectSeq(new_ids, LAMBDA mid : ~is_derivative_model(mid))

\* notifying in fetched order
NotifyOrder_Forward(main_models) == main_models

\* line 72: the order in which main_models is notified
NotifyOrder(main_models) == Reverse(main_models)

\* storing on every cycle
ListChanged_Always(current_ids, stored) == TRUE

\* never storing a listing that brought nothing new
ListChanged_Never(current_ids, stored) == FALSE

\* line 85: `elif current_ids != org_state.get("models", [])`
ListChanged(current_ids, stored) == current_ids # stored

\* the ghost noted after a listing was stored for org
NotedAfterStore(nt, org, ids) == [nt EXCEPT ![org] = nt[org] \cap Range(ids)]

\* The for loop of lines 45-87 from position i, run until it suspends in
\* `await _notify_new_model` (pc "notify") or is exhausted (pc "finish").
RECURSIVE RunLoop(_, _, _, _, _)
RunLoop(res, st, i, ch, nt) ==
    IF i > Len(res)
    THEN [pc |-> "finish", st |-> st, idx |-> i, changed |-> ch,
          pending |-> <<>>, noted |-> nt]
    ELSE
      LET org    == res[i][1]
          models == res[i][2]
          current_ids == Dedup(models)
          stored  == StoredModels(st, org)
          new_ids == NewIds(current_ids, stored)
          main_models == MainModels(new_ids)
          store == RunLoop(res, SetOrg(st, org, current_ids), i + 1, TRUE,
                           NotedAfterStore(nt, org, current_ids))
      IN
      IF IsSkipped(models) THEN RunLoop(res, st, i + 1, ch, nt)
      ELSE IF IsFirstSync(st, org)
      THEN store      \* first sync: no notifications
      ELSE IF new_ids # <<>>
      THEN IF main_models # <<>>
           THEN [pc |-> "notify", st |-> st, idx |-> i, changed |-> ch,
                 pending |-> NotifyOrder(main_models), noted |-> nt]
           ELSE store
      ELSE IF ListChanged(current_ids, stored)
      THEN store
      ELSE RunLoop(res, st, i + 1, ch, nt)

\* lines 83-84 after the last notification of results[i], then the loop on
AfterNotify(res, st, i, nt) ==
    LET org == res[i][1]
        current_ids == Dedup(res[i][2])
    IN  RunLoop(res, SetOrg(st, org, current_ids), i + 1, TRUE,
                NotedAfterStore(nt, org, current_ids))

\* the loop has run up to r: suspend, or finish with lines 89-90
Continue(r) ==
    /\ state' = r.st
    /\ idx' = r.idx
    /\ changed' = r.changed
    /\ pending' = r.pending
    /\ noted' = r.noted
    /\ IF r.pc = "finish"
       THEN /\ pollPc' = "done"
            /\ saved' = r.changed
            /\ disk' = IF r.changed THEN save_state(r.st) ELSE disk
       ELSE /\ pollPc' = "notify"
            /\ UNCHANGED <<saved, disk>>

\* monitoring_job fires: poll_once starts its fetches and awaits them
PollStart ==
    /\ pollPc \in {"idle", "done"}
    /\ pollPc' = "gather"
    /\ last' = IF pollPc = "done"
               THEN [valid |-> TRUE, results |-> results, raised |-> raised]
               ELSE NoLast
    /\ prev' = state.orgs
    /\ results' = <<>>
    /\ raised' = {}
    /\ idx' = 0
    /\ changed' = FALSE
    /\ pending' = <<>>
    /\ sent' = <<>>
    /\ failed' = {}
    /\ saved' = FALSE
    /\ repeat' = FALSE
    /\ UNCHANGED <<state, disk, monitored, noted>>
    /\ UNCHANGED <<pagVars, duelVars, storeVars, dispVars, gatherVars, messageVars, mainVars>>

\* asyncio.gather returns results (line 42) and the loop runs
Gathered(res, rs, rep) ==
    /\ results' = res
    /\ raised' = rs
    /\ repeat' = rep
    /\ Continue(RunLoop(res, state, 1, FALSE, noted))
    /\ UNCHANGED <<monitored, sent, failed, prev, last>>

\* the upstream serves outcome[org]: a listing, or the fetch raises
FetchDone ==
    /\ pollPc = "gather"
    /\ ~last.valid
    /\ \E outcome \in GatherOutcomes[monitored] :
         Gathered([i \in 1..Len(monitored) |-> _fetch(monitored[i], outcome[i])],
                  {monitored[i] : i \in {j \in 1..Len(monitored) : ~outcome[j].ok}},
                  FALSE)
    /\ UNCHANGED <<pagVars, duelVars, storeVars, dispVars, gatherVars, messageVars, mainVars>>

\* the upstream serves exactly what it served in the cycle before
FetchSame ==
    /\ pollPc = "gather"
    /\ last.valid
    /\ Gathered(last.results, last.raised, TRUE)
    /\ UNCHANGED <<pagVars, duelVars, storeVars, dispVars, gatherVars, messageVars, mainVars>>

\* the awaited _notify_new_model ends for the head of pending, its
\* announcement delivered or not: when it returns, the loop of line 72
\* goes on; when it raises, the exception leaves poll_once
NotifyDone ==
    /\ pollPc = "notify"
    /\ \E d \in DispatchSummaries :
         LET org == results[idx][1]
             mid == Head(pending)
             nt  == [noted EXCEPT ![org] = @ \cup {mid}]
         IN  /\ sent' = Append(sent, <<org, mid>>)
             /\ failed' = IF d.announced THEN failed ELSE failed \cup {<<org, mid>>}
             /\ IF d.raised
                THEN /\ pollPc' = "raised"
                     /\ UNCHANGED <<state, disk, idx, changed, pending, noted, saved>>
                ELSE IF Tail(pending) # <<>>
                THEN /\ pending' = Tail(pending)
                     /\ noted' = nt
                     /\ UNCHANGED <<state, disk, pollPc, idx, changed, saved>>
                ELSE Continue(AfterNotify(results, state, idx, nt))
    /\ UNCHANGED <<monitored, results, raised, prev, last, repeat>>
    /\ UNCHANGED <<pagVars, duelVars, storeVars, dispVars, gatherVars, messageVars, mainVars>>

\* poll_once has returned and the upstream changes before the next run
PollReturn ==
    /\ pollPc = "done"
    /\ pollPc' = "idle"
    /\ results' = <<>>
    /\ raised' = {}
    /\ idx' = 0
    /\ changed' = FALSE
    /\ sent' = <<>>
    /\ failed' = {}
    /\ saved' = FALSE
    /\ repeat' = FALSE
    /\ last' = NoLast
    /\ prev' = state.orgs
    /\ UNCHANGED <<state, disk, monitored, pending, noted>>
    /\ UNCHANGED <<pagVars, duelVars, storeVars, dispVars, gatherVars, messageVars, mainVars>>

(***************************************************************************)
(* clients/huggingface.py: HuggingFaceClient._paginate                     *)
(***************************************************************************)
_PAGE_SIZE == 1000
DEFAULT_MAX_PAGES == 50

\* the values of max_pages the model calls _paginate with
MaxPagesChoices == {0, 1, 2, DEFAULT_MAX_PAGES}

\* the number of items a response page can hold (the request asks for at
\* most _PAGE_SIZE)
BatchSizes == {0, 1, _PAGE_SIZE - 1, _PAGE_SIZE}

\* a page of n items, the items being numbered within the request that
\* delivered them: run [page |-> p, n |-> n] is items <<p,1>> .. <<p,n>>
Batch(p, n) == [page |-> p, n |-> n]

\* a response with a good status, and a request that failed
Page(n, header) == [n |-> n, next |-> header # <<>>]
FailedPage == [n |-> -1, next |-> FALSE]

\* all_items = batch
Extend_Replace(items, batch) == IF batch.n = 0 THEN items ELSE <<batch>>

\* all_items.extend(batch)
Extend(items, batch) == IF batch.n = 0 THEN items ELSE Append(items, batch)

\* len(all_items)
RECURSIVE ItemCount(_)
ItemCount(items) ==
    IF items = <<>> THEN 0 ELSE Head(items).n + ItemCount(Tail(items))

\* _LINK_NEXT_RE.search(link_header) matches
HasNext(header) == header # <<>>

\* `while True` in place of the bounded loop
LoopContinues_Forever(done, mp) == TRUE

\* `for _ in range(max_pages)` has another iteration after done of them
LoopContinues(done, mp) == done < mp

\* a caller awaits self._paginate(params, max_pages=mp)
PaginateCall ==
    /\ pagPc = "idle"
    /\ \E mp \in MaxPagesChoices :
         /\ max_pages' = mp
         /\ IF LoopContinues(0, mp)
            THEN pagPc' = "request" /\ requests' = 1
            ELSE pagPc' = "returned" /\ requests' = 0
    /\ all_items' = <<>>
    /\ url' = 0
    /\ current_params' = "params"
    /\ link_header' = <<>>
    /\ responses' = <<>>
    /\ UNCHANGED <<state, disk, pollVars, duelVars, storeVars, dispVars, gatherVars, messageVars, mainVars>>

\* the response arrives with a good status: lines 73-91, and the next
\* request when the loop goes on
PageResponse ==
    /\ pagPc = "request"
    /\ \E n \in BatchSizes, header \in {<<>>, <<url>>, <<url + 1>>} :
         LET batch == Batch(requests, n)
         IN  /\ link_header' = header
             /\ responses' = Append(responses, Page(n, header))
             /\ IF n = 0
                THEN /\ pagPc' = "returned"
                     /\ UNCHANGED <<all_items, url, current_params, requests>>
                ELSE /\ all_items' = Extend(all_items, batch)
                     /\ IF n < _PAGE_SIZE \/ ~HasNext(header)
                        THEN /\ pagPc' = "returned"
                             /\ UNCHANGED <<url, current_params, requests>>
                        ELSE /\ url' = header[1]
                             /\ current_params' = "None"
                             /\ IF LoopContinues(requests, max_pages)
                                THEN pagPc' = "request" /\ requests' = requests + 1
                                ELSE pagPc' = "returned" /\ UNCHANGED requests
    /\ UNCHANGED <<state, disk, pollVars, duelVars, storeVars, dispVars, gatherVars, messageVars, mainVars, max_pages>>

\* the request fails or resp.raise_for_status() raises: _paginate raises
PageFails ==
    /\ pagPc = "request"
    /\ pagPc' = "raised"
    /\ responses' = Append(responses, FailedPage)
    /\ UNCHANGED <<state, disk, pollVars, duelVars, storeVars, dispVars, gatherVars, messageVars, mainVars, max_pages, requests, all_items, url,
                   current_params, link_header>>

\* the caller has taken the result (or the exception)
PaginateEnd ==
    /\ pagPc \in {"returned", "raised"}
    /\ pagPc' = "idle"
    /\ max_pages' = 0
    /\ requests' = 0
    /\ all_items' = <<>>
    /\ url' = 0
    /\ current_params' = "params"
    /\ link_header' = <<>>
    /\ responses' = <<>>
    /\ UNCHANGED <<state, disk, pollVars, duelVars, storeVars, dispVars, gatherVars, messageVars, mainVars>>

(***************************************************************************)
(* handlers.py: /battle, its question bank and its timers.                 *)
(*                                                                         *)
(* The application handles one update at a time (the handlers are          *)
(* awaited in turn); job callbacks and background tasks are tasks of       *)
(* their own and run whenever the handler in flight is suspended.  A       *)
(* handler's or callback's last await, after which it only returns, is     *)
(* part of the step that starts it.                                        *)
(***************************************************************************)
Chats == {"c1"}

\* the bank's target size (handlers.py:432)
BANK_TARGET == 10

\* how many of the count questions asked for generate_question_bank
\* returns: none (no output, unparseable output), one, or all
GenSizes(count) == {0, 1, count}

\* k fresh questions
FreshQuestions(first, k) == [i \in 1..k |-> first + i - 1]

\* del battles[chat_id]
DelKey(f, c) == [x \in (DOMAIN f) \ {c} |-> f[x]]

\* battles[chat_id] = value
SetKey(f, c, v) == [x \in (DOMAIN f) \cup {c} |-> IF x = c THEN v ELSE f[x]]

Msg(kind, c, sid) == [kind |-> kind, chat |-> c, sid |-> sid]

Job(kind, c, sid) == [kind |-> kind, chat |-> c, sid |-> sid]

\* the session present in chat c, 0 when there is none
SidIn(c) == IF c \in DOMAIN sidOf THEN sidOf[c] ELSE 0

handlerVars == <<hPc, hChat, hBattle, hSid, hReply>>
bankVars == <<state, disk, nextQ, refillNew, refillWait, prefill, served, restarts>>

\* lines 367-376: the session is created and the question is being sent
CreateSession(c, qdata, qtype) ==
    /\ battles' = SetKey(battles, c, [question |-> qdata, answer |-> qdata, type |-> qtype])
    /\ sidOf' = SetKey(sidOf, c, nextSid)
    /\ hSid' = nextSid
    /\ nextSid' = nextSid + 1
    /\ hPc' = "battle_edit"
    /\ hReplyTo' = "none"
    /\ UNCHANGED <<hChat, hBattle, hReply, msgs>>

\* the failure text is out and cmd_battle goes on without the return of
\* line 365
NoQuestion_NoReturn(c) ==
    /\ hReply' = "no_llm"
    /\ hPc' = "battle_edit"
    /\ hReplyTo' = "none"
    /\ UNCHANGED <<battles, sidOf, hChat, hBattle, hSid, msgs, nextSid>>

\* lines 361-365: no question, the failure text replaces the placeholder
NoQuestion(c) ==
    /\ hReply' = "no_llm"
    /\ hPc' = "idle"
    /\ hReplyTo' = "none"
    /\ UNCHANGED <<battles, sidOf, hChat, hBattle, hSid, msgs, nextSid>>

\* the popped bank is not written
AfterPopSave_Skip(st, d) == d

\* lines 415-417: save_state(state, settings.state_path) after the pop;
\* the document on disk is then st
AfterPopSave(st, d) == save_state(st)

\* _pop_bank_question from line 409 on, the bank being bank
PopBank(c, bank) ==
    IF bank = <<>>
    THEN /\ NoQuestion(c)
         /\ state' = [state EXCEPT !.question_bank = bank]
         /\ UNCHANGED <<disk, refillNew, served>>
    ELSE /\ state' = [state EXCEPT !.question_bank = Tail(bank)]
         /\ disk' = AfterPopSave(state', disk)
         /\ refillNew' = refillNew + 1
         /\ served' = served \cup {Head(bank)}
         /\ CreateSession(c, Head(bank), "serious")

\* the new batch takes the place of the bank
Refilled_Replace(bank, new) == new

\* lines 437-438 (app.py 80-81): `if new: bank.extend(new)`
Refilled(bank, new) == IF new # <<>> THEN bank \o new ELSE bank

\* every /battle starts a new session
HasActiveSession_Never(b, c) == FALSE

\* line 342: `if chat_id in battles`
HasActiveSession(b, c) == c \in DOMAIN b

\* /battle arrives (lines 339-350)
BattleCmd ==
    /\ hPc = "idle"
    /\ \E c \in Chats :
         IF HasActiveSession(battles, c)
         THEN /\ hReply' = "already_active"
              /\ hChat' = c
              /\ UNCHANGED hPc
         ELSE /\ nextSid <= MaxSessions
              /\ hPc' = "battle_thinking"
              /\ hChat' = c
              /\ hReply' = ""
    /\ hReplyTo' = "none"
    /\ UNCHANGED <<battles, sidOf, jobs, running, hBattle, hSid, msgs, nextSid>>
    /\ UNCHANGED <<bankVars, pollVars, pagVars, storeVars, dispVars, gatherVars, messageVars, mainVars>>

\* the placeholder reply raised: cmd_battle ends with the exception
BattleThinkingFails ==
    /\ hPc = "battle_thinking"
    /\ hPc' = "idle"
    /\ hReplyTo' = "none"
    /\ UNCHANGED <<battles, sidOf, jobs, running, hChat, hBattle, hSid, hReply, msgs, nextSid>>
    /\ UNCHANGED <<bankVars, pollVars, pagVars, storeVars, dispVars, gatherVars, messageVars, mainVars>>

\* the placeholder is out and random.random() < 0.2 (lines 354-356)
BattleAbsurd ==
    /\ hPc = "battle_thinking"
    /\ hPc' = "battle_absurd"
    /\ hReplyTo' = "none"
    /\ UNCHANGED <<battles, sidOf, jobs, running, hChat, hBattle, hSid, hReply, msgs, nextSid>>
    /\ UNCHANGED <<bankVars, pollVars, pagVars, storeVars, dispVars, gatherVars, messageVars, mainVars>>

\* generate_absurd_question returned a question, or None
BattleAbsurdDone ==
    /\ hPc = "battle_absurd"
    /\ \/ /\ NoQuestion(hChat)
          /\ UNCHANGED nextQ
       \/ /\ CreateSession(hChat, nextQ, "absurd")
          /\ nextQ' = nextQ + 1
    /\ UNCHANGED <<jobs, running, state, disk, refillNew, refillWait,
                   prefill, served, restarts>>
    /\ UNCHANGED <<pollVars, pagVars, storeVars, dispVars, gatherVars, messageVars, mainVars>>

\* the placeholder is out and the question comes from the bank (line 358):
\* _pop_bank_question runs up to its await (bank empty) or through
BattleSerious ==
    /\ hPc = "battle_thinking"
    /\ IF state.question_bank = <<>>
       THEN /\ hPc' = "battle_gen"
            /\ hReplyTo' = "none"
            /\ UNCHANGED <<battles, sidOf, hChat, hBattle, hSid, hReply, msgs,
                           nextSid, state, disk, refillNew, served>>
       ELSE PopBank(hChat, state.question_bank)
    /\ UNCHANGED <<jobs, running, nextQ, refillWait, prefill, restarts>>
    /\ UNCHANGED <<pollVars, pagVars, storeVars, dispVars, gatherVars, messageVars, mainVars>>

\* generate_question_bank(count=10) returned (lines 406-422), or raised:
\* _parse_json_array raises AttributeError on an array whose items are
\* no objects (llm.py 187), which generate_question_bank does not catch,
\* and cmd_battle ends with the exception
BattleGenDone ==
    /\ hPc = "battle_gen"
    /\ \/ \E k \in GenSizes(BANK_TARGET) :
            /\ nextQ' = nextQ + k
            /\ PopBank(hChat, state.question_bank \o FreshQuestions(nextQ, k))
       \/ /\ hPc' = "idle"
          /\ hReplyTo' = "none"
          /\ UNCHANGED <<battles, sidOf, hChat, hBattle, hSid, hReply, msgs,
                         nextSid, nextQ, state, disk, refillNew, served>>
    /\ UNCHANGED <<jobs, running, refillWait, prefill, restarts>>
    /\ UNCHANGED <<pollVars, pagVars, storeVars, dispVars, gatherVars, messageVars, mainVars>>

\* the question is out (or its edit raised): the reminder is scheduled
\* only when it is out (lines 373-384)
BattleEditDone ==
    /\ hPc = "battle_edit"
    /\ hPc' = "idle"
    /\ \/ jobs' = jobs \cup {Job("reminder", hChat, hSid)}
       \/ UNCHANGED jobs
    /\ hReplyTo' = "none"
    /\ UNCHANGED <<battles, sidOf, running, hChat, hBattle, hSid, hReply, msgs, nextSid>>
    /\ UNCHANGED <<bankVars, pollVars, pagVars, storeVars, dispVars, gatherVars, messageVars, mainVars>>

\* _refill_bank starts (lines 432-435)
RefillStart ==
    /\ refillNew > 0
    /\ refillNew' = refillNew - 1
    /\ refillWait' = IF Len(state.question_bank) >= BANK_TARGET
                     THEN refillWait ELSE refillWait + 1
    /\ UNCHANGED <<state, disk, nextQ, prefill, served, restarts>>
    /\ hReplyTo' = "none"
    /\ UNCHANGED <<battles, sidOf, jobs, running, handlerVars, msgs, nextSid>>
    /\ UNCHANGED <<pollVars, pagVars, storeVars, dispVars, gatherVars, messageVars, mainVars>>

\* generate_question_bank(count=1) returned to _refill_bank (lines
\* 436-440); when it raised, the except clause of line 441 caught it and
\* the task ends as with an empty batch
RefillDone ==
    /\ refillWait > 0
    /\ refillWait' = refillWait - 1
    /\ \E k \in GenSizes(1) :
         /\ nextQ' = nextQ + k
         /\ state' = [state EXCEPT !.question_bank =
                          Refilled(@, FreshQuestions(nextQ, k))]
         /\ disk' = IF k > 0 THEN save_state(state') ELSE disk
    /\ UNCHANGED <<refillNew, prefill, served, restarts>>
    /\ hReplyTo' = "none"
    /\ UNCHANGED <<battles, sidOf, jobs, running, handlerVars, msgs, nextSid>>
    /\ UNCHANGED <<pollVars, pagVars, storeVars, dispVars, gatherVars, messageVars, mainVars>>

\* the process stops at any point and starts again: build_application
\* loads the document (app.py 106-124) and the bank of bot_data is the
\* list of the document; sessions, jobs and tasks are gone; _post_init
\* creates the _prefill_question_bank task when the bank is short and the
\* text service has its key (app.py 63-66, 75-79)
Restart ==
    /\ restarts < MaxRestarts
    /\ restarts' = restarts + 1
    /\ state' = disk
    /\ battles' = <<>>
    /\ sidOf' = <<>>
    /\ jobs' = {}
    /\ running' = {}
    /\ hPc' = "idle"
    /\ hBattle' = <<>>
    /\ hSid' = 0
    /\ hReply' = ""
    /\ hReplyTo' = "none"
    /\ refillNew' = 0
    /\ refillWait' = 0
    /\ \/ prefill' = 0
       \/ /\ Len(disk.question_bank) < BANK_TARGET
          /\ prefill' = BANK_TARGET - Len(disk.question_bank)
    /\ UNCHANGED <<disk, hChat, msgs, nextSid, nextQ, served>>
    /\ UNCHANGED <<pollVars, pagVars, storeVars, dispVars, gatherVars, messageVars, mainVars>>

\* generate_question_bank(count=needed) returned to
\* _prefill_question_bank (app.py 79-86); when it raised, the except
\* clause of line 87 caught it
PrefillDone ==
    /\ prefill > 0
    /\ prefill' = 0
    /\ \E k \in GenSizes(prefill) :
         /\ nextQ' = nextQ + k
         /\ state' = [state EXCEPT !.question_bank =
                          Refilled(@, FreshQuestions(nextQ, k))]
         /\ disk' = IF k > 0 THEN save_state(state') ELSE disk
    /\ UNCHANGED <<refillNew, refillWait, served, restarts>>
    /\ hReplyTo' = "none"
    /\ UNCHANGED <<battles, sidOf, jobs, running, handlerVars, msgs, nextSid>>
    /\ UNCHANGED <<pollVars, pagVars, storeVars, dispVars, gatherVars, messageVars, mainVars>>

\* what message.reply_to_message of a text message can be
ReplyTargets == {"none", "some"}

\* every message in a chat with a session is evaluated
BattleBranch_Always(reply_to) == "evaluate"

\* handlers.py lines 724-728: in a chat with a session, handle_message
\* returns for a reply and calls _handle_battle_evaluate otherwise
BattleBranch(reply_to) == IF reply_to # "none" THEN "returned" ELSE "evaluate"

\* a qualifying message that is no reply arrives while the chat has a
\* session: handle_message reads it and _handle_battle_evaluate sends its
\* placeholder (lines 722-727, 490-493)
MessageEval ==
    /\ hPc = "idle"
    /\ \E c \in Chats, reply_to \in ReplyTargets :
         /\ c \in DOMAIN battles
         /\ BattleBranch(reply_to) = "evaluate"
         /\ hReplyTo' = reply_to
         /\ hChat' = c
         /\ hBattle' = <<battles[c]>>
         /\ hSid' = sidOf[c]
    /\ hPc' = "eval_reply"
    /\ UNCHANGED <<battles, sidOf, jobs, running, hReply, msgs, nextSid>>
    /\ UNCHANGED <<bankVars, pollVars, pagVars, storeVars, dispVars, gatherVars, messageVars, mainVars>>

\* a qualifying message that is a reply arrives while the chat has a
\* session: handle_message returns (lines 725-726)
MessageReplyIgnored ==
    /\ hPc = "idle"
    /\ \E c \in Chats, reply_to \in ReplyTargets :
         /\ c \in DOMAIN battles
         /\ BattleBranch(reply_to) = "returned"
         /\ hReplyTo' = reply_to
    /\ UNCHANGED <<battles, sidOf, jobs, running, hPc, hChat, hBattle, hSid, hReply, msgs, nextSid>>
    /\ UNCHANGED <<bankVars, pollVars, pagVars, storeVars, dispVars, gatherVars, messageVars, mainVars>>

\* the placeholder is out and evaluate_battle_answer is awaited, or the
\* placeholder raised and the handler ends (lines 490-500)
EvalReplyDone ==
    /\ hPc = "eval_reply"
    /\ \/ hPc' = "eval_llm" /\ UNCHANGED hBattle
       \/ hPc' = "idle" /\ hBattle' = <<>>
    /\ hReplyTo' = "none"
    /\ UNCHANGED <<battles, sidOf, jobs, running, hChat, hSid, hReply, msgs, nextSid>>
    /\ UNCHANGED <<bankVars, pollVars, pagVars, storeVars, dispVars, gatherVars, messageVars, mainVars>>

\* job.schedule_removal() for every job named battle_reminder_<chat> or
\* battle_timeout_<chat> (lines 506-508)
CancelJobs(js, c) == {j \in js : j.chat # c}

\* evaluate_battle_answer returned a verdict or None: the session is
\* cleared, the jobs are cancelled, and the verdict (line 513) or the
\* failure text (line 515) is being sent (lines 502-518)
EvalLlmDone ==
    /\ hPc = "eval_llm"
    /\ battles' = IF hChat \in DOMAIN battles THEN DelKey(battles, hChat) ELSE battles
    /\ sidOf' = IF hChat \in DOMAIN sidOf THEN DelKey(sidOf, hChat) ELSE sidOf
    /\ jobs' = CancelJobs(jobs, hChat)
    /\ hPc' \in {"eval_send_result", "eval_send_failed"}
    /\ hReplyTo' = "none"
    /\ UNCHANGED <<running, hChat, hBattle, hSid, hReply, msgs, nextSid>>
    /\ UNCHANGED <<bankVars, pollVars, pagVars, storeVars, dispVars, gatherVars, messageVars, mainVars>>

\* the verdict or the failure text is out, or its send raised;
\* _handle_battle_evaluate and handle_message end (lines 510-520)
EvalSendDone ==
    /\ hPc \in {"eval_send_result", "eval_send_failed"}
    /\ \/ msgs' = msgs \cup {Msg(IF hPc = "eval_send_result" THEN "result"
                                  ELSE "eval_failed", hChat, hSid)}
       \/ msgs' = msgs \cup {Msg("eval_undelivered", hChat, hSid)}
    /\ hPc' = "idle"
    /\ hBattle' = <<>>
    /\ hReplyTo' = "none"
    /\ UNCHANGED <<battles, sidOf, jobs, running, hChat, hSid, hReply, nextSid>>
    /\ UNCHANGED <<bankVars, pollVars, pagVars, storeVars, dispVars, gatherVars, messageVars, mainVars>>

\* a battle_reminder job comes due: _battle_reminder up to its await
\* (lines 447-456)
ReminderFire ==
    /\ \E j \in jobs :
         /\ j.kind = "reminder"
         /\ jobs' = jobs \ {j}
         /\ running' = IF j.chat \in DOMAIN battles
                       THEN running \cup {[chat |-> j.chat, sid |-> j.sid,
                                           seen |-> sidOf[j.chat]]}
                       ELSE running
    /\ hReplyTo' = "none"
    /\ UNCHANGED <<battles, sidOf, handlerVars, msgs, nextSid>>
    /\ UNCHANGED <<bankVars, pollVars, pagVars, storeVars, dispVars, gatherVars, messageVars, mainVars>>

\* the nudge is out and the final timeout is scheduled, or the send raised
\* and the callback ends (lines 452-464)
ReminderSendDone ==
    /\ \E r \in running :
         /\ running' = running \ {r}
         /\ \/ /\ msgs' = msgs \cup {Msg("nudge", r.chat, r.seen)}
               /\ jobs' = jobs \cup {Job("timeout", r.chat, r.sid)}
            \/ UNCHANGED <<msgs, jobs>>
    /\ hReplyTo' = "none"
    /\ UNCHANGED <<battles, sidOf, handlerVars, nextSid>>
    /\ UNCHANGED <<bankVars, pollVars, pagVars, storeVars, dispVars, gatherVars, messageVars, mainVars>>

\* a battle_timeout job comes due: _battle_final_timeout (lines 470-478)
TimeoutFire ==
    /\ \E j \in jobs :
         /\ j.kind = "timeout"
         /\ jobs' = jobs \ {j}
         /\ IF j.chat \in DOMAIN battles
            THEN /\ battles' = DelKey(battles, j.chat)
                 /\ sidOf' = DelKey(sidOf, j.chat)
                 /\ msgs' = msgs \cup {Msg("timeout", j.chat, sidOf[j.chat])}
            ELSE UNCHANGED <<battles, sidOf, msgs>>
    /\ hReplyTo' = "none"
    /\ UNCHANGED <<running, handlerVars, nextSid>>
    /\ UNCHANGED <<bankVars, pollVars, pagVars, storeVars, dispVars, gatherVars, messageVars, mainVars>>

(***************************************************************************)
(* state.py: load_state and save_state on the file system.                 *)
(*                                                                         *)
(* A document is a function from its top-level keys to the contents        *)
(* stored under them: 0 is the empty container, k > 0 some other content.  *)
(* The key "extra" stands for a key the bot does not know; the bot never   *)
(* touches what is stored under it.                                        *)
(* A file's text is the sequence of the tokens written to it, so that a    *)
(* write cut short leaves a proper prefix.  A crash ends the process and   *)
(* keeps what the system calls made so far have put into the files.        *)
(***************************************************************************)
KnownKeys == {"orgs", "chat_users", "question_bank"}
Keys == KnownKeys \cup {"extra"}
KeyOrder == <<"orgs", "chat_users", "question_bank", "extra">>
Contents == 0..MaxVal

\* the JSON objects over Keys
Docs ==
    {d \in UNION {[ks -> Contents] : ks \in SUBSET Keys} :
        "extra" \in DOMAIN d => d["extra"] = 1}

\* the documents the bot holds in memory: a loaded document has every
\* known key (lines 27-29)
SaveDocs == {d \in Docs : KnownKeys \subseteq DOMAIN d}

Tok(k, v) == [k |-> k, v |-> v]
Open == Tok("{", 0)
Close == Tok("}", 0)
NL == Tok("\n", 0)
ListOpen == Tok("[", 0)
ListClose == Tok("]", 0)
\* bytes that are not valid UTF-8
BadBytes == Tok("\\xff", 0)

\* json.dump(state, f): the object's pairs in the order of its keys
Dump(d) ==
    LET keys == SelectSeq(KeyOrder, LAMBDA k : k \in DOMAIN d)
    IN  <<Open>> \o [i \in 1..Len(keys) |-> Tok(keys[i], d[keys[i]])] \o <<Close>>

\* what lines 37-39 write: the dump, then "\n"
Written(d) == Dump(d) \o <<NL>>

Absent == [exists |-> FALSE, readable |-> FALSE, text |-> <<>>]
FileOf(text) == [exists |-> TRUE, readable |-> TRUE, text |-> text]
Unreadable(text) == [exists |-> TRUE, readable |-> FALSE, text |-> text]

\* the text without its trailing white space
Stripped(text) ==
    IF text # <<>> /\ text[Len(text)] = NL THEN SubSeq(text, 1, Len(text) - 1) ELSE text

\* the text is one JSON object
IsObjectText(text) ==
    LET b == Stripped(text)
    IN  /\ Len(b) >= 2
        /\ b[1] = Open
        /\ b[Len(b)] = Close
        /\ \A i \in 2..(Len(b) - 1) : b[i].k \in Keys
        /\ \A i, j \in 2..(Len(b) - 1) : b[i].k = b[j].k => i = j

\* the text is one JSON value that is no object
IsOtherJson(text) == Stripped(text) = <<ListOpen, ListClose>>

\* the object the text denotes
ObjectOf(text) ==
    LET b == Stripped(text)
        at(k) == CHOOSE i \in 2..(Len(b) - 1) : b[i].k = k
    IN  [k \in {b[i].k : i \in 2..(Len(b) - 1)} |-> b[at(k)].v]

\* _empty_state() as a document
EmptyDocument == [k \in KnownKeys |-> 0]

\* data.setdefault(k, <empty container>)
SetDefault(d, k) == IF k \in DOMAIN d THEN d ELSE [x \in (DOMAIN d) \cup {k} |-> IF x = k THEN 0 ELSE d[x]]

\* line 21: json.load reads the file, opened with encoding="utf-8", and
\* the read raises UnicodeDecodeError, a ValueError that is none of the
\* exceptions line 22 names
LoadRaises(file) ==
    /\ file.exists
    /\ file.readable
    /\ \E i \in DOMAIN file.text : file.text[i] = BadBytes

\* lines 19-26: open or json.load raised an exception that line 22
\* names, or the value is no dict
LoadFails(file) ==
    \/ ~file.exists
    \/ ~file.readable
    \/ ~(IsObjectText(file.text) \/ IsOtherJson(file.text))
    \/ ~IsObjectText(file.text)

\* load_state without its setdefault calls
FillDefaults_Skip(d) == d

\* lines 27-29
FillDefaults(d) == SetDefault(SetDefault(SetDefault(d, "orgs"), "chat_users"), "question_bank")

\* load_state(path), the file at path being file
load_state(file) ==
    IF LoadFails(file) THEN EmptyDocument ELSE FillDefaults(ObjectOf(file.text))

\* the texts an earlier run, an operator or a fault can have left at path
RECURSIVE Prefixes(_)
Prefixes(text) == IF text = <<>> THEN {<<>>} ELSE {text} \cup Prefixes(SubSeq(text, 1, Len(text) - 1))

\* a document with something under every known key
SampleDocument == [k \in KnownKeys |-> 1]

\* whole documents, a document cut short, JSON that is no object, and a
\* document damaged inside a character
FoundTexts ==
    {Written(d) : d \in Docs}
        \cup {Dump(d) : d \in Docs}
        \cup Prefixes(Dump(SampleDocument))
        \cup {<<ListOpen, ListClose>>, <<ListOpen, ListClose, NL>>}
        \cup {<<Open, BadBytes>>}

FoundFiles == {Absent} \cup {FileOf(t) : t \in FoundTexts} \cup {Unreadable(Written(SampleDocument))}

\* before the process starts, something puts a file at path
FileFound ==
    /\ storePc = "down"
    /\ loaded = <<>>
    /\ committed = <<>>
    /\ path_file = Absent
    /\ \E f \in FoundFiles \ {Absent} :
         /\ path_file' = f
         /\ committed' = IF ~LoadFails(f) /\ ~LoadRaises(f)
                         THEN <<ObjectOf(f.text)>> ELSE <<>>
    /\ UNCHANGED <<tmp_file, storePc, saveDoc, loaded>>
    /\ UNCHANGED <<state, disk, pollVars, pagVars, duelVars, dispVars, gatherVars, messageVars, mainVars>>

\* the bank of bot_data is a copy of the list of the document
question_bank_Copy(doc) ==
    [shared |-> FALSE,
     items |-> IF "question_bank" \in DOMAIN doc THEN doc["question_bank"] ELSE 0]

\* app.py line 124: state.get("question_bank", []) is the list that the
\* document holds under the key, or a new empty list that the document
\* does not hold
question_bank(doc) ==
    IF "question_bank" \in DOMAIN doc
    THEN [shared |-> TRUE, items |-> doc["question_bank"]]
    ELSE [shared |-> FALSE, items |-> 0]

\* the process starts: build_application calls load_state (app.py:106),
\* and ends there when load_state raises
Startup ==
    /\ storePc \in {"down", "aborted"}
    /\ IF LoadRaises(path_file)
       THEN /\ storePc' = "aborted"
            /\ loaded' = <<>>
       ELSE /\ storePc' = "up"
            /\ loaded' = <<load_state(path_file)>>
    /\ UNCHANGED <<path_file, tmp_file, saveDoc, committed>>
    /\ UNCHANGED <<state, disk, pollVars, pagVars, duelVars, dispVars, gatherVars, messageVars, mainVars>>

\* save_state(state, path) is called with a document that has the unknown
\* keys of the loaded one: lines 35-37 open the temporary file for
\* writing, which creates or empties it
SaveOpen ==
    /\ storePc = "up"
    /\ \E d \in SaveDocs :
         /\ ("extra" \in DOMAIN d) = ("extra" \in DOMAIN loaded[1])
         /\ saveDoc' = <<d>>
    /\ tmp_file' = FileOf(<<>>)
    /\ storePc' = "writing"
    /\ UNCHANGED <<path_file, loaded, committed>>
    /\ UNCHANGED <<state, disk, pollVars, pagVars, duelVars, dispVars, gatherVars, messageVars, mainVars>>

\* writing straight to path
WriteTarget_InPlace == "path"

\* line 35: the file save_state writes to
WriteTarget == "tmp"

\* lines 37-39: the next part of the text reaches the file; after the
\* last one the with block closes it
SaveWrite ==
    /\ storePc = "writing"
    /\ LET whole == Written(saveDoc[1])
           f == IF WriteTarget = "tmp" THEN tmp_file ELSE path_file
           n == IF f.exists /\ storePc = "writing" /\ Len(f.text) < Len(whole)
                     /\ f.text = SubSeq(whole, 1, Len(f.text))
                THEN Len(f.text) ELSE 0
           g == FileOf(SubSeq(whole, 1, n + 1))
       IN  /\ IF WriteTarget = "tmp"
              THEN tmp_file' = g /\ UNCHANGED path_file
              ELSE path_file' = g /\ UNCHANGED tmp_file
           /\ storePc' = IF n + 1 = Len(whole) THEN "replace" ELSE "writing"
    /\ UNCHANGED <<saveDoc, loaded, committed>>
    /\ UNCHANGED <<state, disk, pollVars, pagVars, duelVars, dispVars, gatherVars, messageVars, mainVars>>

\* line 40: os.replace(tmp, path), and save_state returns
SaveReplace ==
    /\ storePc = "replace"
    /\ IF WriteTarget = "tmp"
       THEN /\ path_file' = tmp_file
            /\ tmp_file' = Absent
       ELSE UNCHANGED <<path_file, tmp_file>>
    /\ committed' = saveDoc
    /\ saveDoc' = <<>>
    /\ storePc' = "up"
    /\ UNCHANGED loaded
    /\ UNCHANGED <<state, disk, pollVars, pagVars, duelVars, dispVars, gatherVars, messageVars, mainVars>>

\* the process dies, inside save_state or outside it; the files stay
Crash ==
    /\ storePc \notin {"down", "aborted"}
    /\ storePc' = "down"
    /\ saveDoc' = <<>>
    /\ loaded' = <<>>
    /\ UNCHANGED <<path_file, tmp_file, committed>>
    /\ UNCHANGED <<state, disk, pollVars, pagVars, duelVars, dispVars, gatherVars, messageVars, mainVars>>

(***************************************************************************)
(* handlers.py: _gather_context.  The call creates one task per explicit   *)
(* model reference, per search phrase and per URL of the message, and at   *)
(* most one web-search task, awaits them together and assembles the        *)
(* bundle from the results.  None and "" are the empty sequence.           *)
(***************************************************************************)
Models == {"m1", "m2", "m3"}

\* intent_data["models"], intent_data["normalized_queries"] and the URLs
\* of the message
RefChoices == { <<>>, <<"m1">>, <<"m1", "m1">>, <<"m1", "m2", "m3">> }
PhraseChoices == { <<>>, <<"q1">>, <<"q1", "q2">> }
UrlChoices ==
    { <<>>, <<"arxiv.org/abs/1">>, <<"example.org/post">>,
      <<"example.org/a", "arxiv.org/abs/1", "example.org/b", "example.org/c">> }
Intents == {"compare", "info", "news", "chat"}

\* user_text without its URLs
Texts == { <<"h","i">>, <<"N","E","W","S">>, <<"r","e","n","e","w">> }

\* search.py lines 14-20: the triggers written in ASCII letters
_TRIGGERS ==
    { <<"n","e","w","s">>, <<"l","a","t","e","s","t">>,
      <<"r","e","c","e","n","t">>, <<"t","o","d","a","y">>,
      <<"r","e","l","e","a","s","e">>, <<"a","n","n","o","u","n","c","e","d">>,
      <<"b","e","n","c","h","m","a","r","k">>,
      <<"l","e","a","d","e","r","b","o","a","r","d">> }

\* `t in s` of two strings
Contains(s, t) ==
    \E i \in 1..(Len(s) - Len(t) + 1) : SubSeq(s, i, i + Len(t) - 1) = t

\* search.py: SearchClient.needs_search
needs_search(text) == \E t \in _TRIGGERS : Contains(Lower(text), t)

\* the API key of the search client: "" or a key
ApiKeys == { <<>>, <<"k">> }

\* the search client passes for configured whatever its key
available_Always(api_key) == TRUE

\* search.py: SearchClient.available
available(api_key) == api_key # <<>>

\* web_reader.py: is_arxiv_url
is_arxiv_url(u) == u = "arxiv.org/abs/1"

\* seq[:n]
Take(s, n) == SubSeq(s, 1, IF Len(s) < n THEN Len(s) ELSE n)

\* an image reference of a README: host is "" for a relative path, dot
\* says that a relative path starts with "./", decor that the reference
\* holds one of "badge", "shield", "icon", ".svg", "logo", kw that it holds
\* one of _RELEVANT_IMG_KW; the identifiers of Models hold none of them
Image(host, name, dot, decor, kw) ==
    [host |-> host, name |-> name, dot |-> dot, decor |-> decor, kw |-> kw]

\* the README of a model: the matches of the markdown pattern and of the
\* <img> pattern (huggingface.py lines 28-31)
ReadmeOf(m) ==
    CASE m = "m1" ->
            [md   |-> << Image("", "arch.png", FALSE, FALSE, FALSE),
                         Image("cdn", "chart.png", FALSE, FALSE, TRUE) >>,
             html |-> << Image("cdn", "badge.svg", FALSE, TRUE, FALSE) >>]
      [] m = "m2" ->
            [md   |-> << Image("", "eval.png", TRUE, FALSE, TRUE),
                         Image("", "eval.png", FALSE, FALSE, TRUE) >>,
             html |-> << Image("cdn", "chart.png", FALSE, FALSE, TRUE) >>]
      [] OTHER ->
            [md   |-> << Image("", "arch.png", FALSE, FALSE, FALSE),
                         Image("", "fig1.png", FALSE, FALSE, FALSE),
                         Image("", "logo.png", FALSE, TRUE, FALSE),
                         Image("", "fig2.png", FALSE, FALSE, FALSE),
                         Image("", "fig3.png", FALSE, FALSE, FALSE) >>,
             html |-> <<>>]

\* huggingface.py lines 232-233: a reference that does not start with
\* "http" is resolved against the model, its leading "./" stripped
Normalize(u, model_id) ==
    IF u.host # "" THEN u
    ELSE [u EXCEPT !.host = model_id, !.dot = FALSE]

\* first occurrences, in order (lines 241-246)
RECURSIVE UniqueInto(_, _)
UniqueInto(urls, unique) ==
    IF urls = <<>> THEN unique
    ELSE IF Head(urls) \in Range(unique)
         THEN UniqueInto(Tail(urls), unique)
         ELSE UniqueInto(Tail(urls), Append(unique, Head(urls)))

\* huggingface.py: _extract_images
_extract_images(readme, model_id, max_images) ==
    LET raw == readme.md \o readme.html
        kept == SelectSeq(raw, LAMBDA u : ~u.decor)
        normalized == [i \in 1..Len(kept) |-> Normalize(kept[i], model_id)]
        relevant == SelectSeq(normalized, LAMBDA u : u.kw)
        others == SelectSeq(normalized, LAMBDA u : ~u.kw)
    IN  Take(UniqueInto(relevant \o others, <<>>), max_images)

\* one line of a context block
Line(k, v) == [k |-> k, v |-> v]

\* models.py: ModelInfo.to_context; has_readme is the truth of `readme`
to_context(id, has_readme) ==
    IF has_readme
    THEN << Line("=== id ===", id), Line("URL", id), Line("README", id) >>
    ELSE << Line("ID", id), Line("URL", id) >>

\* the result of a model or search task
Fetched(text, imgs) == [st |-> "done", text |-> text, imgs |-> imgs]
Nothing == Fetched(<<>>, <<>>)

\* what the calls of a model task do: get_model_info raises, returns None
\* or the model; get_readme_with_images returns (None, []) or the text
\* and its images
FetchOutcomes == [info : {"raise", "None", "ok"}, readme : {"None", "text"}]

\* lines 588-601: _fetch_model
_fetch_model(is_compare, mid, o) ==
    IF o.info = "raise" THEN Nothing
    ELSE IF o.info = "None" THEN Nothing
    ELSE IF is_compare /\ o.readme = "text"
         THEN Fetched(to_context(mid, TRUE),
                      _extract_images(ReadmeOf(mid), mid, 3))
         ELSE Fetched(to_context(mid, FALSE), <<>>)

\* what the calls of a search task do: search_models returns [] or the
\* best match
SearchOutcomes == [found : {"none", "m1", "m2"}, readme : {"None", "text"}]

\* lines 603-615: _search_and_fetch
_search_and_fetch(is_compare, o) ==
    IF o.found = "none" THEN Nothing
    ELSE IF is_compare /\ o.readme = "text"
         THEN Fetched(to_context(o.found, TRUE),
                      _extract_images(ReadmeOf(o.found), o.found, 3))
         ELSE Fetched(to_context(o.found, FALSE), <<>>)

\* a task of the reader raises, returns None or returns the text
ReaderOutcomes == {"raise", "None", "text"}

reader_result(u, o) ==
    CASE o = "raise" -> [st |-> "exc"]
      [] o = "None" -> [st |-> "done", text |-> <<>>]
      [] OTHER -> [st |-> "done", text |-> << Line("page", u) >>]

\* search_client.search returns [] when the request fails, or the hits
WebOutcomes == {"fail", "hits"}

\* lines 633-643: _do_web_search
_do_web_search(o) ==
    [st |-> "done",
     items |-> IF o = "hits" THEN << Line("hit", "1") >> ELSE <<>>]

Pending == [st |-> "pending"]

\* every URL of the message is read
first_urls_All(urls) == urls

\* line 579: extract_urls(user_text)[:3]
first_urls(urls) == Take(urls, 3)

Task(type, arg) == [type |-> type, arg |-> arg]

\* lines 578-645: the tasks in the order of their creation
CreateTasks(intent, models, queries, urls, text, api_key) ==
    LET user_urls == first_urls(urls)
        lookups == IF intent \in {"compare", "info"}
                   THEN [i \in 1..Len(models) |-> Task("model", models[i])]
                        \o [i \in 1..Len(queries) |-> Task("search", queries[i])]
                   ELSE <<>>
        reads == [i \in 1..Len(user_urls) |->
                     Task(IF is_arxiv_url(user_urls[i]) THEN "arxiv" ELSE "url",
                          user_urls[i])]
        is_news == intent = "news"
        should_search == is_news \/ needs_search(text)
        web == IF should_search /\ available(api_key)
               THEN << Task("web", "query") >>
               ELSE <<>>
    IN  lookups \o reads \o web

\* asyncio.gather raises the first exception of its tasks
return_exceptions_False == FALSE

\* line 653: asyncio.gather(..., return_exceptions=True)
return_exceptions == TRUE

\* the positions of the tasks of the given types whose result is not an
\* exception (lines 654-656)
Returned(tasks, task_results, types) ==
    SelectSeq([i \in 1..Len(tasks) |-> i],
              LAMBDA i : tasks[i].type \in types /\ task_results[i].st = "done")

RECURSIVE Flatten(_)
Flatten(ss) == IF ss = <<>> THEN <<>> ELSE Head(ss) \o Flatten(Tail(ss))

\* every block is kept, whatever its first line
KeepBlock_All(key, seen) == TRUE

\* line 676: `if key not in seen`
KeepBlock(key, seen) == key \notin seen

\* lines 672-678: the blocks whose first line was not seen before
RECURSIVE UniqueBlocks(_, _, _)
UniqueBlocks(data, seen, unique) ==
    IF data = <<>> THEN unique
    ELSE LET d == Head(data)
             key == d[1]
         IN  IF KeepBlock(key, seen)
             THEN UniqueBlocks(Tail(data), seen \cup {key}, Append(unique, d))
             ELSE UniqueBlocks(Tail(data), seen, unique)

\* search.py: SearchClient.format_results
format_results(items) ==
    IF items = <<>> THEN <<>> ELSE << Line("[web results]", "") >> \o items

EmptyContext ==
    [hf_context |-> <<>>, url_context |-> <<>>, web_context |-> <<>>,
     image_urls |-> <<>>]

\* lines 647-687: the bundle built from the task_results of the tasks
Assemble(tasks, task_results) ==
    LET lookups == Returned(tasks, task_results, {"model", "search"})
        reads == Returned(tasks, task_results, {"url", "arxiv"})
        webs == Returned(tasks, task_results, {"web"})
        models_data ==
            SelectSeq([k \in 1..Len(lookups) |-> task_results[lookups[k]].text],
                      LAMBDA t : t # <<>>)
        all_images ==
            Flatten([k \in 1..Len(lookups) |-> task_results[lookups[k]].imgs])
        url_contents ==
            SelectSeq([k \in 1..Len(reads) |-> task_results[reads[k]].text],
                      LAMBDA t : t # <<>>)
        search_results ==
            IF webs = <<>> THEN <<>> ELSE task_results[webs[Len(webs)]].items
    IN  [hf_context |-> Take(UniqueBlocks(models_data, {}, <<>>), 4),
         url_context |-> url_contents,
         web_context |-> format_results(search_results),
         image_urls |-> Take(all_images, 3)]

\* handle_message calls _gather_context, which creates its tasks; the
\* model follows one call
GatherCall ==
    /\ gPc = "idle"
    /\ \E intent \in Intents, models \in RefChoices, queries \in PhraseChoices,
          urls \in UrlChoices, text \in Texts, api_key \in ApiKeys :
          /\ Len(models) + Len(queries) + Len(urls) <= MaxRefs
          /\ gUrls' = urls
          /\ gIntent' = intent
          /\ gText' = text
          /\ gApiKey' = api_key
          /\ gTasks' = CreateTasks(intent, models, queries, urls, text, api_key)
    /\ gResults' = [i \in 1..Len(gTasks') |-> Pending]
    /\ gFailed' = {}
    /\ gCtx' = EmptyContext
    /\ gPc' = "await"
    /\ UNCHANGED <<state, disk, pollVars, pagVars, duelVars, storeVars, dispVars, messageVars, mainVars>>

\* a task is done
TaskDone ==
    /\ gPc = "await"
    /\ \E i \in 1..Len(gTasks) :
          /\ gResults[i] = Pending
          /\ LET t == gTasks[i]
             IN  CASE t.type = "model" ->
                        \E o \in FetchOutcomes :
                            /\ gResults' = [gResults EXCEPT ![i] =
                                   _fetch_model(gIntent = "compare", t.arg, o)]
                            /\ gFailed' = IF o.info = "raise"
                                          THEN gFailed \cup {i} ELSE gFailed
                   [] t.type = "search" ->
                        \E o \in SearchOutcomes :
                            /\ gResults' = [gResults EXCEPT ![i] =
                                   _search_and_fetch(gIntent = "compare", o)]
                            /\ UNCHANGED gFailed
                   [] t.type \in {"url", "arxiv"} ->
                        \E o \in ReaderOutcomes :
                            /\ gResults' = [gResults EXCEPT ![i] =
                                   reader_result(t.arg, o)]
                            /\ gFailed' = IF o = "raise"
                                          THEN gFailed \cup {i} ELSE gFailed
                   [] OTHER ->
                        \E o \in WebOutcomes :
                            /\ gResults' = [gResults EXCEPT ![i] =
                                   _do_web_search(o)]
                            /\ gFailed' = IF o = "fail"
                                          THEN gFailed \cup {i} ELSE gFailed
    /\ UNCHANGED <<gPc, gIntent, gText, gApiKey, gTasks, gCtx, gUrls>>
    /\ UNCHANGED <<state, disk, pollVars, pagVars, duelVars, storeVars, dispVars, messageVars, mainVars>>

\* every task is done: the gather is over and the bundle is assembled
GatherReturn ==
    /\ gPc = "await"
    /\ \A i \in 1..Len(gTasks) : gResults[i] # Pending
    /\ IF ~return_exceptions /\ \E i \in 1..Len(gTasks) : gResults[i].st = "exc"
       THEN gPc' = "raised" /\ UNCHANGED gCtx
       ELSE gPc' = "returned" /\ gCtx' = Assemble(gTasks, gResults)
    /\ UNCHANGED <<gIntent, gText, gApiKey, gTasks, gResults, gFailed, gUrls>>
    /\ UNCHANGED <<state, disk, pollVars, pagVars, duelVars, storeVars, dispVars, messageVars, mainVars>>

(***************************************************************************)
(* handlers.py: handle_message, and llm.py: LLMClient._chat.  A text is a  *)
(* sequence of words; "@bot" is the mention of the bot.  None and "" are   *)
(* the empty sequence.                                                     *)
(***************************************************************************)
\* message.text: None, or a text
MessageTexts == { <<>>, <<"@bot">>, <<"hi">>, <<"@bot", "hi">> }

\* the update: the text, the chat type, what the message replies to, and
\* whether the chat has a duel session
Updates ==
    [text : MessageTexts, chat_type : {"private", "group"},
     reply_to : {"none", "us", "other"}, battle : BOOLEAN]

NoUpdate == [text |-> <<>>, chat_type |-> "private", reply_to |-> "none",
             battle |-> FALSE]

\* lines 708-710: text.replace("@bot", "").strip()
user_text(text) == SelectSeq(text, LAMBDA w : w # "@bot")

\* lines 692-731: where handle_message is after its synchronous start:
\* "returned" (the update is not for the assistant), "battle" (it goes to
\* _handle_battle_evaluate) or "placeholder" (it awaits its reply_text)
Admit(u) ==
    IF u.text = <<>> THEN "returned"
    ELSE IF /\ u.chat_type # "private"
            /\ "@bot" \notin Range(u.text)
            /\ u.reply_to # "us"
         THEN "returned"
    ELSE IF u.battle
         THEN IF u.reply_to # "none" THEN "returned" ELSE "battle"
    ELSE IF user_text(u.text) = <<>> THEN "returned"
    ELSE "placeholder"

\* what the request of _chat meets (llm.py 100-106): a timeout, a status
\* that is not 2xx, a body that is no JSON, no choices, a null or empty
\* content, or a text
ServiceOutcomes ==
    {"timeout", "status", "not_json", "no_choices", "null", "empty", "text"}

\* the exception the outcome raises inside the try of _chat, "" for none
ExceptionOf(o) ==
    CASE o = "timeout" -> "TimeoutError"
      [] o = "status" -> "ClientResponseError"
      [] o = "not_json" -> "ContentTypeError"
      [] OTHER -> ""

\* only the timeout is caught
ChatCatches_TimeoutOnly(exc) == exc = "TimeoutError"

\* llm.py lines 107-110: `except TimeoutError` and `except Exception`
ChatCatches(exc) == TRUE

\* llm.py lines 100-112: LLMClient._chat from its request on; the result
\* is the value returned, or the exception that leaves the call. The
\* content of the first choice is returned as it is, an empty text too.
_chat(o) ==
    LET exc == ExceptionOf(o)
    IN  IF exc # ""
        THEN IF ChatCatches(exc)
             THEN [raised |-> "", value |-> None]
             ELSE [raised |-> exc, value |-> None]
        ELSE [raised |-> "",
              value |-> CASE o = "text" -> Str("answer")
                          [] o = "empty" -> Str("")
                          [] OTHER -> None]

NoChat == [raised |-> "", value |-> None]

\* lines 756-768: the response handle_message goes on with
ResponseOf(chat) == IF chat.raised # "" THEN None ELSE chat.value

\* line 770: `if response:`
Truthy(v) == v # None /\ v[1] # ""

\* a text in the chat: its parse mode and its contents
Shown(form, text) == [form |-> form, text |-> text]

\* line 735: one of THINKING_PHRASES; lines 774-777: the fixed text
Thinking == Shown("html", "thinking")
Fallback == Shown("html", "fallback")

\* a text message for the chat arrives; handle_message runs to its first
\* await or returns (lines 692-736)
MessageArrives ==
    /\ mPc \in {"idle", "returned", "battle", "done", "raised"}
    /\ \E u \in Updates :
          /\ mUpdate' = u
          /\ mPc' = Admit(u)
    /\ mOutcome' = ""
    /\ mChat' = NoChat
    /\ mResponse' = None
    /\ mShown' = <<>>
    /\ UNCHANGED <<state, disk, pollVars, pagVars, duelVars, storeVars, dispVars, gatherVars, mainVars>>

\* the reply_text of the placeholder is done (lines 734-736): the
\* placeholder is in the chat, or the call raised; intent and context are
\* gathered (739-751) and generate_response is awaited
PlaceholderDone ==
    /\ mPc = "placeholder"
    /\ \/ /\ mPc' = "chat"
          /\ mShown' = <<Thinking>>
       \/ /\ mPc' = "raised"
          /\ UNCHANGED mShown
    /\ UNCHANGED <<mUpdate, mOutcome, mChat, mResponse>>
    /\ UNCHANGED <<state, disk, pollVars, pagVars, duelVars, storeVars, dispVars, gatherVars, mainVars>>

\* generate_response is over (lines 756-768)
ChatDone ==
    /\ mPc = "chat"
    /\ \E o \in ServiceOutcomes :
          /\ mOutcome' = o
          /\ mChat' = _chat(o)
          /\ mResponse' = ResponseOf(_chat(o))
    /\ mPc' = "edit"
    /\ UNCHANGED <<mUpdate, mShown>>
    /\ UNCHANGED <<state, disk, pollVars, pagVars, duelVars, storeVars, dispVars, gatherVars, mainVars>>

\* lines 770-777: with a response, _safe_edit puts it into the placeholder
\* as HTML or as plain text, or sends it as a reply, or raises (784-793);
\* without one, edit_text puts the fixed text into the placeholder, or
\* raises
EditDone ==
    /\ mPc = "edit"
    /\ IF Truthy(mResponse)
       THEN \/ mPc' = "done" /\ mShown' = <<Shown("html", mResponse[1])>>
            \/ mPc' = "done" /\ mShown' = <<Shown("plain", mResponse[1])>>
            \/ mPc' = "done" /\ mShown' = <<Thinking, Shown("plain", mResponse[1])>>
            \/ mPc' = "raised" /\ UNCHANGED mShown
       ELSE \/ mPc' = "done" /\ mShown' = <<Fallback>>
            \/ mPc' = "raised" /\ UNCHANGED mShown
    /\ UNCHANGED <<mUpdate, mOutcome, mChat, mResponse>>
    /\ UNCHANGED <<state, disk, pollVars, pagVars, duelVars, storeVars, dispVars, gatherVars, mainVars>>

(***************************************************************************)
(* main (app.py 169-188): the settings are read from the environment,     *)
(* logging is configured, build_application loads the state and schedules *)
(* the monitoring job, and the application polls.                         *)
(***************************************************************************)
\* the files the process can find at STATE_PATH when it starts
MainFiles == {Absent, FileOf(Written(SampleDocument)), FileOf(<<Open, BadBytes>>)}

\* the environment of the process: the variables from_env and main read
Environments ==
    [BOT_TOKEN : {"", "token"}, CHAT_ID : {"", "42"},
     POLL_SECONDS : {"60", "soon"}, HF_TIMEOUT_SECONDS : {"10", "long"},
     LOG_LEVEL : {"INFO", "LOUD"}, state_file : MainFiles]

NoEnvironment ==
    [BOT_TOKEN |-> "", CHAT_ID |-> "", POLL_SECONDS |-> "60",
     HF_TIMEOUT_SECONDS |-> "10", LOG_LEVEL |-> "INFO", state_file |-> Absent]

\* only the token is required
Required_TokenOnly(env) == env.BOT_TOKEN = ""

\* config.py line 73: `if not bot_token or not chat_id`
Required(env) == env.BOT_TOKEN = "" \/ env.CHAT_ID = ""

\* config.py lines 13-19: _int_env raises ConfigError when int(raw) does
IntRaises(raw) == raw \notin {"60", "10"}

\* config.py lines 68-87: Settings.from_env raises ConfigError
FromEnvRaises(env) ==
    \/ Required(env)
    \/ IntRaises(env.POLL_SECONDS)
    \/ IntRaises(env.HF_TIMEOUT_SECONDS)

\* app.py lines 178-181: logging.basicConfig raises ValueError for a level
\* that logging does not know
LoggingRaises(env) == env.LOG_LEVEL \notin {"INFO"}

\* the process is started with an environment (app.py 169-172: main is at
\* its call of Settings.from_env)
MainStart ==
    /\ mainPc \in {"down", "exited", "crashed", "polling"}
    /\ \E env \in Environments : mainEnv' = env
    /\ mainPc' = "from_env"
    /\ mainExit' = 0
    /\ mainLoaded' = <<>>
    /\ mainJobs' = {}
    /\ UNCHANGED <<state, disk, pollVars, pagVars, duelVars, storeVars, dispVars, gatherVars, messageVars>>

\* app.py lines 171-176: Settings.from_env returns the settings, or raises
\* ConfigError and main logs it and calls sys.exit(1)
MainFromEnv ==
    /\ mainPc = "from_env"
    /\ IF FromEnvRaises(mainEnv)
       THEN mainPc' = "exited" /\ mainExit' = 1
       ELSE mainPc' = "logging" /\ UNCHANGED mainExit
    /\ UNCHANGED <<mainEnv, mainLoaded, mainJobs>>
    /\ UNCHANGED <<state, disk, pollVars, pagVars, duelVars, storeVars, dispVars, gatherVars, messageVars>>

\* app.py lines 178-185: logging is configured
MainLogging ==
    /\ mainPc = "logging"
    /\ mainPc' = IF LoggingRaises(mainEnv) THEN "crashed" ELSE "build"
    /\ UNCHANGED <<mainEnv, mainExit, mainLoaded, mainJobs>>
    /\ UNCHANGED <<state, disk, pollVars, pagVars, duelVars, storeVars, dispVars, gatherVars, messageVars>>

\* app.py lines 104-107: build_application loads the state
MainLoadState ==
    /\ mainPc = "build"
    /\ IF LoadRaises(mainEnv.state_file)
       THEN mainPc' = "crashed" /\ UNCHANGED mainLoaded
       ELSE mainPc' = "loaded" /\ mainLoaded' = <<load_state(mainEnv.state_file)>>
    /\ UNCHANGED <<mainEnv, mainExit, mainJobs>>
    /\ UNCHANGED <<state, disk, pollVars, pagVars, duelVars, storeVars, dispVars, gatherVars, messageVars>>

\* app.py lines 109-165 and 188: the handlers are registered, the
\* monitoring job is scheduled with run_repeating, and run_polling starts
MainSchedule ==
    /\ mainPc = "loaded"
    /\ mainJobs' = mainJobs \cup {"monitoring"}
    /\ mainPc' = "polling"
    /\ UNCHANGED <<mainEnv, mainExit, mainLoaded>>
    /\ UNCHANGED <<state, disk, pollVars, pagVars, duelVars, storeVars, dispVars, gatherVars, messageVars>>

\* while the application polls, /battle schedules a reminder (handlers.py
\* 378-384)
MainTimer ==
    /\ mainPc = "polling"
    /\ "battle_reminder" \notin mainJobs
    /\ mainJobs' = mainJobs \cup {"battle_reminder"}
    /\ UNCHANGED <<mainPc, mainEnv, mainExit, mainLoaded>>
    /\ UNCHANGED <<state, disk, pollVars, pagVars, duelVars, storeVars, dispVars, gatherVars, messageVars>>

Init ==
    /\ state = _empty_state
    /\ disk = _empty_state
    /\ monitored \in MonitoredChoices
    /\ pollPc = "idle"
    /\ results = <<>>
    /\ raised = {}
    /\ idx = 0
    /\ changed = FALSE
    /\ pending = <<>>
    /\ sent = <<>>
    /\ failed = {}
    /\ saved = FALSE
    /\ prev = <<>>
    /\ noted = [o \in AllOrgs |-> {}]
    /\ last = NoLast
    /\ repeat = FALSE
    /\ pagPc = "idle"
    /\ max_pages = 0
    /\ requests = 0
    /\ all_items = <<>>
    /\ url = 0
    /\ current_params = "params"
    /\ link_header = <<>>
    /\ responses = <<>>
    /\ battles = <<>>
    /\ sidOf = <<>>
    /\ jobs = {}
    /\ running = {}
    /\ hPc = "idle"
    /\ hChat = "c1"
    /\ hBattle = <<>>
    /\ hSid = 0
    /\ hReply = ""
    /\ hReplyTo = "none"
    /\ msgs = {}
    /\ nextSid = 1
    /\ nextQ = 1
    /\ refillNew = 0
    /\ refillWait = 0
    /\ prefill = 0
    /\ served = {}
    /\ restarts = 0
    /\ path_file = Absent
    /\ tmp_file = Absent
    /\ storePc = "down"
    /\ saveDoc = <<>>
    /\ loaded = <<>>
    /\ committed = <<>>
    /\ dPc = "idle"
    /\ dOut = NoOutcome
    /\ dMsgs = <<>>
    /\ dSend = "none"
    /\ dItem = 0
    /\ dStray = {}
    /\ dDelivered = <<>>
    /\ gPc = "idle"
    /\ gIntent = "chat"
    /\ gText = <<>>
    /\ gApiKey = <<>>
    /\ gTasks = <<>>
    /\ gResults = <<>>
    /\ gFailed = {}
    /\ gCtx = EmptyContext
    /\ gUrls = <<>>
    /\ mPc = "idle"
    /\ mUpdate = NoUpdate
    /\ mOutcome = ""
    /\ mChat = NoChat
    /\ mResponse = None
    /\ mShown = <<>>
    /\ mainPc = "down"
    /\ mainEnv = NoEnvironment
    /\ mainExit = 0
    /\ mainLoaded = <<>>
    /\ mainJobs = {}

Next ==
    \/ PollStart
    \/ FetchDone
    \/ FetchSame
    \/ NotifyDone
    \/ PollReturn

Spec == Init /\ [][Next]_vars

PaginateNext ==
    \/ PaginateCall
    \/ PageResponse
    \/ PageFails
    \/ PaginateEnd

PaginateInit == Init /\ monitored = <<"acme">>

PaginateSpec == PaginateInit /\ [][PaginateNext]_vars

DuelNext ==
    \/ BattleCmd
    \/ BattleThinkingFails
    \/ BattleAbsurd
    \/ BattleAbsurdDone
    \/ BattleSerious
    \/ BattleGenDone
    \/ BattleEditDone
    \/ RefillStart
    \/ RefillDone
    \/ MessageEval
    \/ MessageReplyIgnored
    \/ EvalReplyDone
    \/ EvalLlmDone
    \/ EvalSendDone
    \/ ReminderFire
    \/ ReminderSendDone
    \/ TimeoutFire

DuelInit == Init /\ monitored = <<"acme">>

DuelSpec == DuelInit /\ [][DuelNext]_vars

BankNext ==
    \/ BattleCmd
    \/ BattleThinkingFails
    \/ BattleAbsurd
    \/ BattleAbsurdDone
    \/ BattleSerious
    \/ BattleGenDone
    \/ BattleEditDone
    \/ RefillStart
    \/ RefillDone
    \/ PrefillDone
    \/ Restart

BankInit == Init /\ monitored = <<"acme">>

BankSpec == BankInit /\ [][BankNext]_vars

StoreNext ==
    \/ FileFound
    \/ Startup
    \/ SaveOpen
    \/ SaveWrite
    \/ SaveReplace
    \/ Crash

StoreInit == Init /\ monitored = <<"acme">>

DispatchNext ==
    \/ DispatchCall
    \/ SendSettles
    \/ StraySettles
    \/ DispatchStage

DispatchInit == Init /\ monitored = <<"acme">>

DispatchSpec == DispatchInit /\ [][DispatchNext]_vars

StoreSpec == StoreInit /\ [][StoreNext]_vars

\* every request ends: the session has a total timeout (clients/base.py:25)
GatherNext ==
    \/ GatherCall
    \/ TaskDone
    \/ GatherReturn

GatherInit == Init /\ monitored = <<"acme">>

GatherSpec == GatherInit /\ [][GatherNext]_vars

MessageNext ==
    \/ MessageArrives
    \/ PlaceholderDone
    \/ ChatDone
    \/ EditDone

MessageInit == Init /\ monitored = <<"acme">>

MessageSpec == MessageInit /\ [][MessageNext]_vars

MainNext ==
    \/ MainStart
    \/ MainFromEnv
    \/ MainLogging
    \/ MainLoadState
    \/ MainSchedule
    \/ MainTimer

MainInit == Init /\ monitored = <<"acme">>

MainSpec == MainInit /\ [][MainNext]_vars

PaginateFairSpec == PaginateSpec /\ WF_vars(PageResponse \/ PageFails)

\* every await of a handler or of a callback ends (the calls of the chat
\* and of the text service have timeouts), and a job of the queue comes
\* due after its delay; whether a user writes is left open
DuelFairSpec ==
    /\ DuelSpec
    /\ WF_vars(BattleThinkingFails \/ BattleAbsurd \/ BattleSerious)
    /\ WF_vars(BattleAbsurdDone)
    /\ WF_vars(BattleGenDone)
    /\ WF_vars(BattleEditDone)
    /\ WF_vars(RefillStart)
    /\ WF_vars(RefillDone)
    /\ WF_vars(EvalReplyDone)
    /\ WF_vars(EvalLlmDone)
    /\ WF_vars(EvalSendDone)
    /\ WF_vars(ReminderFire)
    /\ WF_vars(ReminderSendDone)
    /\ WF_vars(TimeoutFire)


(***************************************************************************)
(* Properties of the poller and the diff engine.                           *)
(***************************************************************************)
\* the listing gathered for org in this cycle (empty when its fetch raised)
ListingOf(org) ==
    IF \E i \in DOMAIN results : results[i][1] = org
    THEN results[CHOOSE i \in DOMAIN results : results[i][1] = org][2]
    ELSE <<>>

\* the stored list of org when this cycle started
PrevModels(org) == IF org \in DOMAIN prev THEN prev[org].models ELSE <<>>

\* the ids announced for org in this cycle, in order
SentFor(org) ==
    LET es == SelectSeq(sent, LAMBDA e : e[1] = org)
    IN  [i \in 1..Len(es) |-> es[i][2]]

FirstIndex(l, m) == CHOOSE i \in 1..Len(l) : l[i] = m /\ \A j \in 1..(i - 1) : l[j] # m

NoRepeats(l) == \A i, j \in 1..Len(l) : l[i] = l[j] => i = j

\* s is l with the later repeats of every identifier removed
IsDedupOf(s, l) ==
    /\ NoRepeats(s)
    /\ Range(s) = Range(l)
    /\ \A i, j \in 1..Len(s) : i < j => FirstIndex(l, s[i]) < FirstIndex(l, s[j])

\* the technical variants among the identifiers of the model
VariantIds == {OrgGguf, LabKitFp8}

\* the identifiers a cycle has to announce for org: the main releases of
\* its listing that its previous stored list did not hold
DueFor(org) ==
    IF org \in DOMAIN prev
    THEN {m \in Range(ListingOf(org)) : m \notin Range(PrevModels(org)) /\ m \notin VariantIds}
    ELSE {}

\* C1 as stated: a publisher without stored state whose fetch returned a
\* listing gets no notification and its stored list equals that listing.
C1_Original ==
    pollPc = "done" =>
        \A i \in DOMAIN results :
            LET org == results[i][1]
            IN  (org \notin DOMAIN prev /\ org \notin raised) =>
                    /\ SentFor(org) = <<>>
                    /\ HasOrgState(state, org)
                    /\ state.orgs[org].models = results[i][2]

\* C1 (amended): when poll_once processes a publisher without stored state,
\* a non-empty listing produces zero notifications and leaves the stored
\* list equal to the listing with later repeats removed; an empty listing
\* produces zero notifications and leaves the publisher without stored state.
C1_BaselineSync ==
    pollPc = "done" =>
        \A i \in DOMAIN results :
            LET org == results[i][1]
            IN  org \notin DOMAIN prev =>
                    /\ SentFor(org) = <<>>
                    /\ IF results[i][2] = <<>>
                       THEN ~HasOrgState(state, org)
                       ELSE /\ HasOrgState(state, org)
                            /\ IsDedupOf(state.orgs[org].models, results[i][2])

\* a baseline sync of a listing that repeats an identifier has been stored
C1_Witness ==
    /\ pollPc = "done"
    /\ "acme" \notin DOMAIN prev
    /\ ListingOf("acme") = <<X2, X1, X2>>
    /\ state.orgs["acme"].models = <<X2, X1>>
    /\ sent = <<>>

\* C2: the new main releases of one poll are announced in the reverse of
\* their order in the fetched listing, every one of them is announced, and
\* no identifier of the previous stored list is announced.
C2_ReverseOrder ==
    /\ \A p, q \in DOMAIN sent :
           (p < q /\ sent[p][1] = sent[q][1]) =>
               FirstIndex(ListingOf(sent[p][1]), sent[p][2])
                   > FirstIndex(ListingOf(sent[q][1]), sent[q][2])
    /\ \A p \in DOMAIN sent : sent[p][2] \notin Range(PrevModels(sent[p][1]))
    /\ pollPc = "done" =>
           \A i \in DOMAIN results : Range(SentFor(results[i][1])) = DueFor(results[i][1])

\* baseline [A,B], fetched [D,C,A,B]: C then D were announced
C2_Witness ==
    /\ pollPc = "done"
    /\ PrevModels("acme") = <<X1, X2>>
    /\ ListingOf("acme") = <<X4, X3, X1, X2>>
    /\ sent = << <<"acme", X3>>, <<"acme", X4>> >>

\* C3: every identifier announced for a publisher is in the listing fetched
\* for it (in that very cycle), and an identifier is announced again only
\* after a stored listing lacked it: nothing about to be announced is in
\* noted, and no cycle announces an identifier twice.
C3_NotifiedWereFetched ==
    /\ \A p \in DOMAIN sent : sent[p][2] \in Range(ListingOf(sent[p][1]))
    /\ NoRepeats(sent)
    /\ pollPc = "notify" =>
           /\ NoRepeats(pending)
           /\ \A k \in DOMAIN pending : pending[k] \notin noted[results[idx][1]]

\* a cycle announced an identifier for a publisher that still holds an
\* identifier announced in an earlier cycle
C3_Witness ==
    /\ pollPc = "done"
    /\ \E org \in Range(monitored) :
           /\ SentFor(org) # <<>>
           /\ \E m \in noted[org] : m \notin Range(SentFor(org))

\* C4: a technical variant is never announced, and a fetched variant is in
\* the stored list once the cycle has stored the listing.
C4_VariantSuppression ==
    /\ \A p \in DOMAIN sent : sent[p][2] \notin VariantIds
    /\ \A k \in DOMAIN pending : pending[k] \notin VariantIds
    /\ pollPc = "done" =>
           \A i \in DOMAIN results :
               \A v \in VariantIds \cap Range(results[i][2]) :
                   /\ HasOrgState(state, results[i][1])
                   /\ v \in Range(state.orgs[results[i][1]].models)

\* org/model-gguf appeared as the only new identifier and was stored silently
C4_Witness ==
    /\ pollPc = "done"
    /\ PrevModels("org") = <<OrgBase>>
    /\ ListingOf("org") = <<OrgGguf, OrgBase>>
    /\ state.orgs["org"].models = <<OrgGguf, OrgBase>>
    /\ SentFor("org") = <<>>

\* C5: a poll that fetches what the poll before it fetched announces
\* nothing and does not call save_state.
C5_DiffIdempotence ==
    repeat => (pollPc = "done" /\ sent = <<>> /\ ~saved)

\* the second of two polls of the same non-empty listings has returned
C5_Witness ==
    /\ repeat
    /\ pollPc = "done"
    /\ \A i \in DOMAIN results : results[i][2] # <<>>
    /\ results # <<>>

\* C6 as stated: after a cycle in which the fetch succeeded the stored list
\* and the persisted list equal the fetched list.
C6_Original ==
    pollPc = "done" =>
        \A i \in DOMAIN results :
            LET org == results[i][1]
            IN  org \notin raised =>
                    /\ HasOrgState(state, org)
                    /\ state.orgs[org].models = results[i][2]
                    /\ HasOrgState(disk, org)
                    /\ disk.orgs[org].models = results[i][2]

\* C6 (amended): after a cycle in which a publisher's fetch returned a
\* non-empty listing, its stored list is that listing with later repeats
\* removed, also when nothing new appeared, and the persisted document
\* holds the same list; an empty listing leaves the stored list as it was.
\* Previous [acme/x-1] with fetched [acme/x-2, acme/x-1] gives exactly one
\* notification, for acme/x-2.
C6_OverwriteAndPersist ==
    pollPc = "done" =>
        /\ \A i \in DOMAIN results :
               LET org == results[i][1]
               IN  IF results[i][2] = <<>>
                   THEN /\ HasOrgState(state, org) = (org \in DOMAIN prev)
                        /\ StoredModels(state, org) = PrevModels(org)
                   ELSE /\ HasOrgState(state, org)
                        /\ IsDedupOf(state.orgs[org].models, results[i][2])
                        /\ HasOrgState(disk, org)
                        /\ disk.orgs[org].models = state.orgs[org].models
        /\ (PrevModels("acme") = <<X1>> /\ ListingOf("acme") = <<X2, X1>>) =>
               sent = << <<"acme", X2>> >>

\* the example: one notification, and [acme/x-2, acme/x-1] persisted
C6_Witness ==
    /\ pollPc = "done"
    /\ PrevModels("acme") = <<X1>>
    /\ ListingOf("acme") = <<X2, X1>>
    /\ sent = << <<"acme", X2>> >>
    /\ disk.orgs["acme"].models = <<X2, X1>>

\* C7: a publisher whose fetch raised keeps its stored list and gets no
\* notification, and every other publisher of the cycle is still diffed,
\* notified and stored.
C7_FailureIsolation ==
    /\ \A org \in raised :
           /\ HasOrgState(state, org) = (org \in DOMAIN prev)
           /\ StoredModels(state, org) = PrevModels(org)
           /\ SentFor(org) = <<>>
    /\ (pollPc = "done" /\ raised # {}) =>
           \A i \in DOMAIN results :
               LET org == results[i][1]
               IN  (org \notin raised /\ results[i][2] # <<>>) =>
                       /\ HasOrgState(state, org)
                       /\ IsDedupOf(state.orgs[org].models, results[i][2])
                       /\ Range(SentFor(org)) = DueFor(org)

\* the fetch of the first publisher raised; the second was notified and stored
C7_Witness ==
    /\ pollPc = "done"
    /\ raised = {"org"}
    /\ PrevModels("org") # <<>>
    /\ sent = << <<"lab-fp8", LabKit>> >>
    /\ LabKit \in Range(state.orgs["lab-fp8"].models)


(***************************************************************************)
(* Properties of _paginate.                                                *)
(***************************************************************************)
\* every response so far was a full page that carried a next cursor
AlwaysFullServer ==
    /\ requests > 0
    /\ ItemCount(all_items) = requests * _PAGE_SIZE
    /\ HasNext(link_header)

Ended(c, sid) ==
    /\ sid < nextSid
    /\ SidIn(c) # sid
    /\ ~(hPc # "idle" /\ hChat = c /\ hSid = sid)

\* the evaluation path has read the session and not yet deleted it
EvalInFlight == hPc \in {"eval_reply", "eval_llm"}

\* C9: for one session exactly one of the result message and the timeout
\* message is produced: never both, and, once the session has ended, not
\* neither (the text sent when no verdict could be generated, and an
\* evaluation whose send raised, count as the evaluation's message here).
C9_ExactlyOneOutcome ==
    \A c \in Chats : \A sid \in 1..MaxSessions :
        /\ ~(Msg("result", c, sid) \in msgs /\ Msg("timeout", c, sid) \in msgs)
        /\ Ended(c, sid) =>
               \/ Msg("result", c, sid) \in msgs
               \/ Msg("eval_failed", c, sid) \in msgs
               \/ Msg("eval_undelivered", c, sid) \in msgs
               \/ Msg("timeout", c, sid) \in msgs

\* C10: while the evaluation path is between its read and its delete of
\* the session, no step of another task deletes the session and no timer
\* callback finds it present.
C10_AtomicReadDelete ==
    [][(EvalInFlight /\ hPc' = hPc) =>
           (battles' = battles /\ running' \subseteq running)]_vars

\* C11: a /battle for a chat that has an active session answers "already
\* active", ends there, and leaves the session, its serial, the pending
\* jobs, the running callbacks and the question bank (in memory and on
\* disk) as they were; and no step replaces a session that is present by
\* another one.
C11_AlreadyActive ==
    [][/\ (BattleCmd /\ hChat' \in DOMAIN battles) =>
            /\ hReply' = "already_active"
            /\ hPc' = "idle"
            /\ battles' = battles
            /\ sidOf' = sidOf
            /\ jobs' = jobs
            /\ running' = running
            /\ state' = state
            /\ disk' = disk
       /\ \A c \in (DOMAIN sidOf) \cap (DOMAIN sidOf') : sidOf'[c] = sidOf[c]]_vars

\* a /battle was refused in a chat whose session has a pending job and a
\* bank that is not empty
C11_Witness ==
    /\ hPc = "idle"
    /\ hReply = "already_active"
    /\ hChat \in DOMAIN battles
    /\ \E j \in jobs : j.chat = hChat
    /\ state.question_bank # <<>>

\* A job comes due one delay (60 s) after it was scheduled.  A session's
\* own reminder job is scheduled when the session is created and its own
\* timeout job when that reminder's nudge is out, so the session is
\* force-expired two delays after its creation exactly when it is its own
\* timeout job that removes it.
OwnTimerPending(c) ==
    \/ \E j \in jobs : j.chat = c /\ j.sid = sidOf[c]
    \/ \E r \in running : r.chat = c /\ r.sid = sidOf[c]

\* cmd_battle has created the session of chat c and has not returned yet
BeingCreated(c) == hPc = "battle_edit" /\ hChat = c

\* C12: a session is force-expired exactly two delays after its creation
\* unless it is evaluated first: the timeout job that removes a session
\* is the session's own (never earlier), and a session that is present
\* always has a timer of its own on the way (never left active longer).
C12_LifetimeTwoDelays ==
    /\ [][TimeoutFire =>
            \A j \in jobs \ jobs' :
                j.chat \in DOMAIN battles => j.sid = sidOf[j.chat]]_vars
    /\ [](\A c \in DOMAIN battles : BeingCreated(c) \/ OwnTimerPending(c))

\* the evaluation path is at its last await, after its delete and cancel
EvalSending == hPc \in {"eval_send_result", "eval_send_failed"}

\* C13: when the evaluation path completes for a chat no reminder job
\* and no timeout job is pending for that chat, and cancelling is
\* idempotent: cancelling again, or with nothing left to cancel, changes
\* nothing.
C13_NoTimerAfterEvaluation ==
    /\ [][(EvalSending /\ hPc' = "idle") =>
              \A j \in jobs' : j.chat # hChat]_vars
    /\ [](\A c \in Chats :
            CancelJobs(CancelJobs(jobs, c), c) = CancelJobs(jobs, c))

(***************************************************************************)
(* Properties of the state file.                                           *)
(***************************************************************************)
\* C14: while the process runs, the file at path changes only by the
\* rename and then holds the whole new document; and once a document has
\* been persisted, the file at path is at every moment, so after a crash
\* at any point of save_state too, a whole JSON object that load_state
\* reads back as the document persisted last.
C14_AtomicPersistence ==
    /\ [][(storePc \notin {"down", "aborted"} /\ path_file' # path_file) =>
              /\ storePc = "replace"
              /\ path_file' = FileOf(Written(saveDoc[1]))]_vars
    /\ [](committed # <<>> =>
              /\ path_file.exists /\ path_file.readable
              /\ IsObjectText(path_file.text)
              /\ load_state(path_file) = FillDefaults(committed[1]))

\* the process crashed between the write of a whole temporary file and
\* the rename, was started again, and loaded the document persisted
\* before, which is not the one left in the temporary file
C14_Witness ==
    /\ storePc = "up"
    /\ committed # <<>>
    /\ loaded = committed
    /\ path_file = FileOf(Written(committed[1]))
    /\ \E d \in SaveDocs : d # committed[1] /\ tmp_file = FileOf(Written(d))

\* the file is absent, unreadable, not parseable, or parses to a value
\* that is no object
BadFile(file) ==
    \/ ~file.exists
    \/ ~file.readable
    \/ ~(IsObjectText(file.text) \/ IsOtherJson(file.text))
    \/ IsOtherJson(file.text)

\* C15: load_state always returns a document, and for a file that is
\* absent, unreadable, not parseable or no object at its top level it
\* returns the empty document: the three known keys, each empty.
C15_LoadNeverFails ==
    [][(storePc \in {"down", "aborted"} /\ storePc' # storePc) =>
          /\ storePc' = "up"
          /\ loaded' # <<>>
          /\ loaded'[1] \in Docs
          /\ BadFile(path_file) =>
                /\ DOMAIN loaded'[1] = KnownKeys
                /\ \A k \in KnownKeys : loaded'[1][k] = 0]_vars

\* C16: for a file that holds a JSON object, load_state returns the
\* object's keys and the known keys; every key of the object, known or
\* not, keeps its value, and every known key the object lacks is empty.
C16_LoadFillsDefaults ==
    [][(storePc \in {"down", "aborted"} /\ storePc' = "up" /\ ~BadFile(path_file)) =>
          LET obj == ObjectOf(path_file.text)
              got == loaded'[1]
          IN  /\ DOMAIN got = (DOMAIN obj) \cup KnownKeys
              /\ \A k \in DOMAIN obj : got[k] = obj[k]
              /\ \A k \in KnownKeys \ DOMAIN obj : got[k] = 0]_vars

\* load_state has returned a document for an object that lacked a known
\* key and had an unknown key and a known key with contents
C16_Witness ==
    /\ storePc = "up"
    /\ loaded # <<>>
    /\ ~BadFile(path_file)
    /\ LET obj == ObjectOf(path_file.text)
       IN  /\ "question_bank" \notin DOMAIN obj
           /\ "extra" \in DOMAIN obj
           /\ "orgs" \in DOMAIN obj /\ obj["orgs"] # 0
           /\ loaded[1] = FillDefaults(obj)
           /\ loaded[1]["question_bank"] = 0

(***************************************************************************)
(* Properties of the poller's persistence and of the dispatcher.           *)
(***************************************************************************)
\* C17: a durable mutation of the state document is saved before the
\* task that made it yields: whenever poll_once is suspended in an
\* await after its fetches, the persisted document is the document in
\* memory.
C17_SaveBeforeYield ==
    pollPc = "notify" => disk = state

\* C18: an identifier whose announcement was not sent is not recorded as
\* seen: no announcement of this cycle whose send raised is in the stored
\* list of its publisher, in memory or on disk.
C18_AtLeastOnce ==
    \A e \in failed :
        /\ e[2] \notin Range(StoredModels(state, e[1]))
        /\ e[2] \notin Range(StoredModels(disk, e[1]))

\* C19: no exception leaves _notify_new_model into poll_once, whatever
\* its awaited calls do; a cycle in which an announcement failed still
\* dispatches every identifier due for every publisher whose fetch
\* brought a listing, stores those listings and saves.
C19_DispatcherContainsFailures ==
    /\ pollPc # "raised"
    /\ (pollPc = "done" /\ failed # {}) =>
           /\ saved
           /\ disk = state
           /\ \A i \in DOMAIN results :
                  LET org == results[i][1]
                  IN  results[i][2] # <<>> =>
                          /\ HasOrgState(state, org)
                          /\ IsDedupOf(state.orgs[org].models, results[i][2])
                          /\ Range(SentFor(org)) = DueFor(org)

\* the first announcement of the cycle failed; the next publisher's
\* identifier was dispatched all the same and the cycle saved
C19_Witness ==
    /\ pollPc = "done"
    /\ failed = {<<"org", OrgBase>>}
    /\ sent = << <<"org", OrgBase>>, <<"lab-fp8", LabKit>> >>
    /\ saved

\* C20: the stages fail independently.  When the announcement is out and
\* the document was fetched, the summary is delivered although the fetch
\* of the metadata raised; when the announcement is out and the metadata
\* carries sizes, the size estimate is delivered although the document
\* was not fetched or the summary stage raised.
C20_StageIndependence ==
    dPc \in {"returned", "raised"} =>
        /\ (/\ dOut.send = "ok"
            /\ dOut.info = "raise"
            /\ dOut.readme = "text"
            /\ dOut.summary = "text"
            /\ dOut.summary_send = "ok") => "summary" \in Range(dMsgs)
        /\ (/\ dOut.send = "ok"
            /\ dOut.info = "size"
            /\ dOut.estimate = "ok"
            /\ dOut.deploy_send = "ok") => "deploy" \in Range(dMsgs)

\* C21: the calls of _notify_new_model for one publisher's new
\* identifiers are strictly sequential: when the call for the next
\* identifier starts, the announcement send of the call before is done,
\* so the announcements arrive in the notify order.
C21_SequentialNotifications ==
    \A i, j \in 1..Len(dDelivered) :
        i < j => dDelivered[i] < dDelivered[j]

\* the positions of the tasks of the given types
TasksOf(types) == {i \in 1..Len(gTasks) : gTasks[i].type \in types}

\* the lookups (model and search tasks) and the tasks in which no call
\* raised
Lookups == TasksOf({"model", "search"})
Succeeded == (1..Len(gTasks)) \ gFailed

\* the task has returned a block, a page text or hits
HasContent(i) ==
    /\ gResults[i].st = "done"
    /\ CASE gTasks[i].type \in {"model", "search", "url", "arxiv"} ->
                gResults[i].text # <<>>
         [] OTHER -> gResults[i].items # <<>>

\* C22: _gather_context does not raise when calls of its tasks raise.  The
\* bundle it returns is built from the tasks in which no call raised:
\* every block, page text, image and the web block come from such a
\* task; a task in which a call raised has no content; and when one of
\* the other tasks has content the bundle is not empty.
C22_AggregatorResilience ==
    /\ gPc # "raised"
    /\ \A i \in gFailed : ~HasContent(i)
    /\ gPc = "returned" =>
           /\ Range(gCtx.hf_context) \subseteq
                  {gResults[i].text : i \in Lookups \cap Succeeded}
           /\ Range(gCtx.image_urls) \subseteq
                  UNION {Range(gResults[i].imgs) : i \in Lookups \cap Succeeded}
           /\ Range(gCtx.url_context) \subseteq
                  {gResults[i].text : i \in TasksOf({"url", "arxiv"}) \cap Succeeded}
           /\ gCtx.web_context # <<>> => TasksOf({"web"}) \cap Succeeded # {}
           /\ (\E i \in Succeeded : HasContent(i)) => gCtx # EmptyContext

\* five tasks, a call raised in two of them, the other three have content
\* and the bundle returned is not empty
C22_Witness ==
    /\ gPc = "returned"
    /\ Len(gTasks) = 5
    /\ Cardinality(gFailed) = 2
    /\ \A i \in Succeeded : HasContent(i)
    /\ gCtx # EmptyContext

\* C23: _gather_context creates at most one web-search task, and creates
\* it only when the intent is news or the text holds a trigger; without
\* an API key it creates none, does not raise and returns a bundle
\* without a web block.
C23_WebSearchGate ==
    gPc # "idle" =>
        /\ Cardinality(TasksOf({"web"})) <= 1
        /\ TasksOf({"web"}) # {} =>
               gIntent = "news" \/ gText = <<"N","E","W","S">>
        /\ gApiKey = <<>> =>
               /\ TasksOf({"web"}) = {}
               /\ gPc # "raised"
               /\ gCtx.web_context = <<>>

\* a news request without an API key has returned its bundle
C23_Witness ==
    /\ gPc = "returned"
    /\ gIntent = "news"
    /\ gApiKey = <<>>

\* C24: the images of the bundle hold no repeat and no decorative
\* reference, every image with a keyword precedes every image without
\* one, and there are at most 3 of them.
C24_BundleImages ==
    gPc = "returned" =>
        LET imgs == gCtx.image_urls
        IN  /\ NoRepeats(imgs)
            /\ \A i \in 1..Len(imgs) : ~imgs[i].decor
            /\ \A i, j \in 1..Len(imgs) : i < j /\ imgs[j].kw => imgs[i].kw
            /\ Len(imgs) <= 3

\* the lookups that returned a block whose first line no earlier lookup
\* returned
FirstOccurrences ==
    {i \in Lookups :
        /\ gResults[i].text # <<>>
        /\ \A j \in Lookups :
               j < i /\ gResults[j].text # <<>> =>
                   gResults[j].text[1] # gResults[i].text[1]}

\* the k-th of them, in task order
NthFirstOccurrence(k) ==
    CHOOSE i \in FirstOccurrences :
        Cardinality({j \in FirstOccurrences : j <= i}) = k

\* C25: the model evidence of the bundle holds at most 4 blocks, no two
\* of them start with the same line, and they are the first occurrences
\* in task order, where the tasks of the explicit references precede the
\* tasks of the search phrases.
C25_EvidenceBlocks ==
    gPc = "returned" =>
        LET blocks == gCtx.hf_context
        IN  /\ Len(blocks) <= 4
            /\ \A i, j \in 1..Len(blocks) :
                   blocks[i][1] = blocks[j][1] => i = j
            /\ Len(blocks) = IF Cardinality(FirstOccurrences) < 4
                             THEN Cardinality(FirstOccurrences) ELSE 4
            /\ \A k \in 1..Len(blocks) :
                   blocks[k] = gResults[NthFirstOccurrence(k)].text
            /\ \A i, j \in Lookups :
                   gTasks[i].type = "model" /\ gTasks[j].type = "search" => i < j

\* five lookups returned blocks with five different first lines, one of
\* them for a model that an earlier lookup returned with another header
C25_Witness ==
    /\ gPc = "returned"
    /\ Cardinality(FirstOccurrences) = 5
    /\ Len(gCtx.hf_context) = 4
    /\ gResults[4].text[1].v = gResults[1].text[1].v

\* s is the beginning of t
IsPrefix(s, t) == Len(s) <= Len(t) /\ SubSeq(t, 1, Len(s)) = s

\* _pop_bank_question returns a question in this step
Pops == served' # served

\* C26: every consumption returns the head of the bank (a batch generated
\* for an empty bank goes behind what the bank holds, and so does every
\* top-up), and the document on disk holds the shortened bank when the
\* step ends; so no question is returned twice, whenever the process
\* stops and starts again.
C26_FifoPersistedPop ==
    /\ [][Pops =>
             \E q \in served' \ served :
                 /\ served' = served \cup {q}
                 /\ IsPrefix(state.question_bank, <<q>> \o state'.question_bank)
                 /\ disk'.question_bank = state'.question_bank]_vars
    /\ [][~Pops /\ restarts' = restarts =>
               /\ IsPrefix(state.question_bank, state'.question_bank)
               /\ disk'.question_bank = state'.question_bank]_vars
    /\ [](/\ served \cap Range(state.question_bank) = {}
          /\ NoRepeats(state.question_bank))

\* the process has started again with a question returned before, and a
\* second question has been returned since
C26_Witness ==
    /\ restarts > 0
    /\ Cardinality(served) = 2
    /\ hPc = "battle_edit"
    /\ state.question_bank # <<>>

\* generate_question_bank returns an empty batch to _pop_bank_question in
\* this step (when it raises, cmd_battle ends with the placeholder left)
GenYieldsNothing ==
    /\ hPc = "battle_gen"
    /\ hPc' # "battle_gen"
    /\ restarts' = restarts
    /\ nextQ' = nextQ
    /\ ~(hPc' = "idle" /\ hReply' = "")

\* cmd_battle ends in this step with the failure text, without a session
\* and without a timer
EndsWithoutQuestion ==
    /\ hPc' = "idle"
    /\ hReply' = "no_llm"
    /\ UNCHANGED <<battles, sidOf, jobs, served, state, disk>>

\* C27 as stated: when the generation for an empty bank yields nothing,
\* _pop_bank_question returns no question and cmd_battle ends with the
\* failure text, without a session and without a timer.
C27_Original == [][GenYieldsNothing => EndsWithoutQuestion]_vars

\* C27: a question is returned from a bank found empty only after the
\* generation of a batch was awaited; when that generation yields nothing
\* and no task has filled the bank in the meantime, _pop_bank_question
\* returns no question and cmd_battle ends with the failure text, without
\* a session and without a timer.
C27_EmptyBankGenerates ==
    /\ [][Pops /\ hPc = "battle_thinking" => state.question_bank # <<>>]_vars
    /\ [][GenYieldsNothing /\ state.question_bank = <<>> =>
               EndsWithoutQuestion]_vars

\* the generation for an empty bank has yielded nothing and the failure
\* text is out
C27_Witness ==
    /\ hPc = "idle"
    /\ hReply = "no_llm"
    /\ state.question_bank = <<>>
    /\ hChat \notin DOMAIN battles
    /\ served = {}
    /\ nextQ = 1

\* a top-up task ends in this step without a batch
TopUpFails ==
    /\ \/ refillWait' < refillWait
       \/ prefill' < prefill
    /\ restarts' = restarts
    /\ nextQ' = nextQ

\* C28: every consumption creates a top-up task and goes on to create
\* the session in the same step, before the task has run; a top-up that
\* ends without a batch leaves the bank, the document on disk, the
\* sessions and the handler as they were.
C28_TopUpInBackground ==
    /\ [][Pops =>
             /\ refillNew' = refillNew + 1
             /\ hPc' = "battle_edit"
             /\ hChat \in DOMAIN battles'
             /\ battles'[hChat].question \in served']_vars
    /\ [][TopUpFails =>
             UNCHANGED <<state, disk, battles, sidOf, jobs, handlerVars, served>>]_vars

\* the question is being sent while the top-up of its consumption has
\* ended without a batch: the bank is as the consumption left it
C28_Witness ==
    /\ hPc = "battle_edit"
    /\ served # {}
    /\ refillNew = 0
    /\ refillWait = 0
    /\ prefill = 0
    /\ state.question_bank = <<>>
    /\ hChat \in DOMAIN battles

\* C29: whenever the process is started, at any point of a save_state or
\* outside it, the bank build_application puts into bot_data has the
\* contents the last persisted document holds under "question_bank", and
\* it is the list of the state document itself, so that what
\* _pop_bank_question and the top-ups do to it is in the document that
\* save_state writes.
C29_BankSurvivesRestart ==
    /\ [](loaded # <<>> => question_bank(loaded[1]).shared)
    /\ [][(storePc \in {"down", "aborted"} /\ storePc' = "up" /\ committed # <<>>) =>
              question_bank(loaded'[1]).items =
                  FillDefaults(committed[1])["question_bank"]]_vars

\* the process died while save_state was writing the temporary file, was
\* started again and has the bank of the document persisted before, which
\* is not empty
C29_Witness ==
    /\ storePc = "up"
    /\ loaded # <<>>
    /\ committed # <<>>
    /\ "question_bank" \in DOMAIN committed[1]
    /\ committed[1]["question_bank"] = 1
    /\ question_bank(loaded[1]).items = 1
    /\ tmp_file.exists
    /\ ~IsObjectText(tmp_file.text)

\* the outcomes of the request that C30 names: a timeout, a status that
\* is not 2xx, and a response without text (no JSON, no choice, a null
\* content)
FailedOutcomes == {"timeout", "status", "not_json", "no_choices", "null"}

C31_ExitBeforeScheduling ==
    (mainPc # "down" /\ (mainEnv.BOT_TOKEN = "" \/ mainEnv.CHAT_ID = "")) =>
        /\ mainPc \in {"from_env", "exited"}
        /\ mainPc = "exited" => mainExit = 1
        /\ mainLoaded = <<>>
        /\ mainJobs = {}

\* main has exited for a missing chat id, the token being there
C31_Witness ==
    /\ mainPc = "exited"
    /\ mainExit = 1
    /\ mainEnv.BOT_TOKEN # ""
    /\ mainEnv.CHAT_ID = ""
    /\ mainLoaded = <<>>
    /\ mainJobs = {}

\* a battle_reminder job comes due for a chat without a session
ReminderFiresAbsent ==
    \E j \in jobs :
        /\ j.kind = "reminder"
        /\ j.chat \notin DOMAIN battles
        /\ jobs' = jobs \ {j}

\* a _battle_reminder that found the session, r, ends
ReminderEnds(r) == r \in running /\ running' = running \ {r}

\* a battle_timeout job, j, comes due
TimeoutFires(j) == j \in jobs /\ j.kind = "timeout" /\ jobs' = jobs \ {j}

\* C32: a _battle_reminder fired without a session sends nothing and
\* schedules nothing; one that found the session ends with its nudge sent
\* and its battle_timeout job scheduled; a _battle_final_timeout fired
\* without a session sends nothing, and with a session deletes it and
\* sends the timeout text.
C32_TimerGuards ==
    [][/\ ReminderFiresAbsent => (msgs' = msgs /\ running' = running)
       /\ \A r \in running :
             ReminderEnds(r) =>
                /\ msgs' = msgs \cup {Msg("nudge", r.chat, r.seen)}
                /\ jobs' = jobs \cup {Job("timeout", r.chat, r.sid)}
       /\ \A j \in jobs :
             TimeoutFires(j) =>
                IF j.chat \in DOMAIN battles
                THEN /\ j.chat \notin DOMAIN battles'
                     /\ msgs' = msgs \cup {Msg("timeout", j.chat, sidOf[j.chat])}
                ELSE msgs' = msgs /\ battles' = battles]_vars

\* the response ends the loop of _paginate: the page is empty, shorter
\* than the page size, or has no next cursor
StopPage(pg) == pg.n = 0 \/ pg.n < _PAGE_SIZE \/ ~pg.next

\* the pages received so far, one run of items per page that has items
PagesReceived ==
    SelectSeq([i \in 1..Len(responses) |-> Batch(i, responses[i].n)],
              LAMBDA b : b.n > 0)

\* the call returned the pages it received, in order; none but the last
\* ends the loop; a failed request makes the call raise
ReturnsWhatItFetched ==
    /\ pagPc = "returned" =>
          /\ Len(responses) = requests
          /\ all_items = PagesReceived
          /\ \A i \in 1..(Len(responses) - 1) : ~StopPage(responses[i])
    /\ (\E i \in 1..Len(responses) : responses[i] = FailedPage) =>
          pagPc = "raised"
    /\ pagPc = "raised" => responses[Len(responses)] = FailedPage

StoredThisCycle(org) ==
    /\ HasOrgState(state, org)
    /\ org \notin DOMAIN prev \/ state.orgs[org].models # prev[org].models

\* C34: no stored list ever holds an identifier twice, and a list that a
\* cycle has stored is the fetched listing without the later repeats of
\* its identifiers, in the order of the listing.
C34_StoredListIsDedup ==
    \A org \in AllOrgs :
        /\ HasOrgState(state, org) => NoRepeats(state.orgs[org].models)
        /\ StoredThisCycle(org) =>
               IsDedupOf(state.orgs[org].models, ListingOf(org))

\* a listing with a repeat was stored: [x-2, x-1, x-2] over [x-1] gives
\* [x-2, x-1]
C34_Witness ==
    /\ pollPc = "done"
    /\ PrevModels("acme") = <<X1>>
    /\ ListingOf("acme") = <<X2, X1, X2>>
    /\ state.orgs["acme"].models = <<X2, X1>>

\* the position of the first message of kind k in ms, 0 when it has none
FirstOf(ms, k) ==
    IF k \in Range(ms) THEN CHOOSE i \in 1..Len(ms) : ms[i] = k /\ \A j \in 1..(i - 1) : ms[j] # k
    ELSE 0

\* C35: whether the announcement of a call is delivered depends on its
\* own send alone, not on the fetches of the document and the metadata;
\* every summary, no-document note and size estimate of the call comes
\* after its announcement; and a call whose metadata record is absent or
\* holds no sizes delivers no size estimate.
C35_AnnouncementFirst ==
    /\ (dPc # "idle" /\ dSend # "flying") =>
           (("announcement" \in Range(dMsgs)) <=> (dOut.send = "ok"))
    /\ \A i \in 1..Len(dMsgs) :
           dMsgs[i] # "announcement" =>
               /\ FirstOf(dMsgs, "announcement") > 0
               /\ FirstOf(dMsgs, "announcement") < i
    /\ dOut.info \in {"raise", "None", "bare", "empty", "zero"} =>
           "deploy" \notin Range(dMsgs)

\* the document was not fetched and the metadata counts no parameter: the
\* announcement and the no-document note are out, and no size estimate
C35_Witness ==
    /\ dPc = "returned"
    /\ dOut.readme = "None"
    /\ dOut.info = "zero"
    /\ dMsgs = <<"announcement", "no_readme">>

\* C36: in a chat with a session, the handling of a message that replies
\* to another one changes neither the session nor the timers, starts no
\* evaluation and hands no message to the chat; the handling of a message
\* that is no reply starts the evaluation with the question, the answer
\* and the type of the chat's session.
C36_RepliesIgnored ==
    [][/\ hReplyTo' # "none" =>
            UNCHANGED <<battles, sidOf, jobs, running, msgs, hPc, hBattle>>
       /\ (hPc = "idle" /\ hPc' = "eval_reply") =>
            /\ hReplyTo' = "none"
            /\ hChat' \in DOMAIN battles
            /\ hBattle' = <<battles[hChat']>>
            /\ hSid' = sidOf[hChat']
            /\ UNCHANGED <<battles, sidOf, jobs, msgs>>]_vars

\* a reply was ignored while the session's reminder was pending
C36_Witness ==
    /\ hReplyTo = "some"
    /\ hPc = "idle"
    /\ "c1" \in DOMAIN battles
    /\ \E j \in jobs : j.kind = "reminder" /\ j.chat = "c1" /\ j.sid = sidOf["c1"]

\* the arguments of the URL and paper tasks, in the order of the tasks
UrlTaskArgs ==
    LET ts == SelectSeq(gTasks, LAMBDA t : t.type \in {"url", "arxiv"})
    IN  [i \in 1..Len(ts) |-> ts[i].arg]

\* the reading of URL u returned a text
WasRead(u) ==
    \E i \in 1..Len(gTasks) :
        /\ gTasks[i].type \in {"url", "arxiv"}
        /\ gTasks[i].arg = u
        /\ gResults[i].st = "done"
        /\ gResults[i].text # <<>>

\* the first n URLs of the message whose reading returned a text
RECURSIVE ReadAmong(_, _)
ReadAmong(urls, n) ==
    IF urls = <<>> \/ n = 0 THEN <<>>
    ELSE (IF WasRead(Head(urls)) THEN <<Head(urls)>> ELSE <<>>)
            \o ReadAmong(Tail(urls), n - 1)

\* C37: the URL and paper tasks of a call are those of the first 3 URLs
\* of the message, in their order; model and search tasks exist only
\* under the intents info and compare; and the URL block of the bundle
\* holds the texts read, in the order of their URLs in the message,
\* whatever the order in which the tasks ended.
C37_UrlTasksInOrder ==
    gPc # "idle" =>
        /\ Len(UrlTaskArgs) <= 3
        /\ UrlTaskArgs = SubSeq(gUrls, 1, Len(UrlTaskArgs))
        /\ Len(UrlTaskArgs) < 3 => Len(UrlTaskArgs) = Len(gUrls)
        /\ (\E i \in 1..Len(gTasks) : gTasks[i].type \in {"model", "search"}) =>
               gIntent \in {"info", "compare"}
        /\ gPc = "returned" =>
               LET read == ReadAmong(gUrls, 3)
               IN  gCtx.url_context =
                       [i \in 1..Len(read) |-> reader_result(read[i], "text").text]

\* a message with four URLs: three tasks, the second of which returned
\* nothing, and the texts of the first and the third in the bundle
C37_Witness ==
    /\ gPc = "returned"
    /\ Len(gUrls) = 4
    /\ Len(UrlTaskArgs) = 3
    /\ Len(gCtx.url_context) = 2
    /\ gCtx.url_context[1][1].v = gUrls[1]
    /\ gCtx.url_context[2][1].v = gUrls[3]

\* C38: the question bank never holds more than BANK_TARGET items.
C38_BankBounded ==
    /\ Len(state.question_bank) <= BANK_TARGET
    /\ Len(disk.question_bank) <= BANK_TARGET

\* C39: a reminder or timeout job is pending for a chat only while the
\* session that scheduled it is in battles, a reminder nudges only the
\* session that scheduled it, and a timeout job removes only the session
\* on whose behalf it was scheduled.
C39_TimersOfActiveSession ==
    /\ [](\A j \in jobs : SidIn(j.chat) = j.sid)
    /\ [](\A r \in running : r.seen = r.sid)
    /\ [][\A j \in jobs :
            (TimeoutFires(j) /\ j.chat \in DOMAIN battles /\ j.chat \notin DOMAIN battles')
                => j.sid = sidOf[j.chat]]_vars

\* C40: every session that is in battles is removed from it at some
\* time, whether or not a message is ever written in its chat and
\* whether or not the sends of the chat succeed.
C40_SessionsEnd ==
    \A c \in Chats : (c \in DOMAIN battles) ~> (c \notin DOMAIN battles)
====
